---- MODULE Spec2Model ----
(***************************************************************************)
(* A model of distributed_fs.py: the monitor's cluster map (OSDs, pools,   *)
(* placement groups, epoch), the CRUSH-like placement function, the OSD    *)
(* object stores and the RADOS put / get / delete protocol.                *)
(*                                                                         *)
(* Every operation of Monitor, RADOS and SimpleCephCluster.set_osd_state   *)
(* is one atomic action.  OSD ids are handed out in order 0, 1, 2, ... as  *)
(* _initialize_cluster does, with the racks it uses.  upload_time (the     *)
(* wall clock) is left out of the metadata; os.remove is taken to succeed. *)
(* hash(object_id) is fixed per process and unknown before: hash_of holds  *)
(* the values drawn so far, each drawn when hash() is first called on it.  *)
(* ret holds the last operation's name and result.  hist is a history      *)
(* variable, read by no action: for a pool name and an object it holds     *)
(* "put" with the bytes after a put that succeeded, until the next         *)
(* topology operation, delete or put of that object that reaches the       *)
(* replica writes, and "deleted" after a delete that returned true, until  *)
(* the next put of that object that succeeds.  A store that fails with an  *)
(* I/O error fails at the first open() and leaves the OSD's files as they  *)
(* were.                                                                   *)
(***************************************************************************)
EXTENDS Integers, Sequences, FiniteSets, TLC

\* ------------------------------------------------------------------ bounds
NumOsds == 3
MaxOsds == 4
MaxPools == 2
MaxServedPools == 1
MaxRemoves == 1
MaxIoFail == 1
MaxCorrupt == 2
PoolNames == {"default", "metadata"}
PoolSizes == {1, 2, 3}
PgNums == {1, 2}
Objects == {"a"}
Bytes == {<<1>>, <<2, 2>>}
HashValues == {0, 1}
StateStrings == {"up", "down", "out", "bogus"}
Threads == {1, 2}
CorruptBytes == <<0>>

\* ------------------------------------------------------- program constants
\* PlacementGroup.primary_osd = None
NoOsd == -1
\* pool = None in put_object / get_object / delete_object
NoPool == -1
\* Pool.__init__ default min_size=2 (create_pool never passes another)
DefaultMinSize == 2
\* Monitor.__init__: self.epoch = 1
InitialEpoch == 1
\* self.lock = threading.Lock(): the lock as created, held by no thread
NoThread == 0
\* racks = ['rack1', 'rack1', 'rack2', 'rack2', 'rack3']
Racks == <<"rack1", "rack1", "rack2", "rack2", "rack3">>

VARIABLES
  osd_map,   \* Monitor.osd_map: osd_id -> OSD (rack, state, pg_assignments)
  crush,     \* Monitor.crush: None, or the SimpleCRUSH with its failure_domains
  pools,     \* Monitor.pools: pool_id -> Pool
  pg_map,    \* Monitor.pg_map: pgid -> PlacementGroup
  epoch,     \* Monitor.epoch
  disk,      \* per OSD, the object files and the .meta files under data_path
  hash_of,   \* the values hash(object_id) has returned in this process
  ret,       \* the last operation and what it returned or raised
  hist,      \* history: per (pool name, object), its last write while undisturbed
  snap,      \* history: the OSD states and acting sets recorded at one earlier moment
  thr,       \* the calls in flight on request threads: per thread, position and locals
  lock       \* RADOS.lock: the thread that holds it, or NoThread

vars == <<osd_map, crush, pools, pg_map, epoch, disk, hash_of, ret, hist, snap, thr, lock>>

\* what the operations that run as one step leave alone
rest == <<snap, thr, lock>>

\* --------------------------------------------------------- dict helpers
\* d[k] = v on a Python dict
DictSet(d, k, v) == [x \in (DOMAIN d) \cup {k} |-> IF x = k THEN v ELSE d[x]]

\* del d[k] / set.discard on a Python dict
DictDel(d, k) == [x \in (DOMAIN d) \ {k} |-> d[x]]

EmptyDict == [x \in {} |-> 0]

\* the list [0, 1, ..., n-1]
RECURSIVE Range(_)
Range(n) == IF n = 0 THEN <<>> ELSE Append(Range(n - 1), n - 1)

\* the elements of a sequence
Elems(s) == {s[i] : i \in 1..Len(s)}

\* ------------------------------------------------------------ the PRNG
(* random.seed(pgid) followed by getrandbits(32): the top three bits of    *)
(* the first 24 outputs of CPython's Mersenne Twister for each seed string *)
(* "{pool_id}.{pg_index}" (str seeds are hashed with SHA-512, so the       *)
(* stream is the same in every process).                                   *)
Words ==
  [g \in (0..3) \X (0..2) |->
     CASE g = <<0, 0>> -> <<2,1,3,1,6,1,3,7,2,2,5,1,4,1,0,1,0,3,6,1,2,5,4,7>>
       [] g = <<0, 1>> -> <<3,6,7,6,1,7,3,5,3,4,7,0,1,3,7,3,4,5,6,1,5,7,6,0>>
       [] g = <<0, 2>> -> <<5,1,5,2,2,6,5,5,4,2,0,1,6,5,5,3,3,4,1,0,5,3,1,1>>
       [] g = <<1, 0>> -> <<5,1,0,1,2,3,1,2,1,1,5,4,3,7,2,3,1,7,2,5,3,7,5,3>>
       [] g = <<1, 1>> -> <<1,4,1,4,5,0,4,5,7,7,7,2,2,0,2,2,6,7,6,3,6,1,5,1>>
       [] g = <<1, 2>> -> <<0,3,1,6,4,4,0,1,6,3,0,2,3,5,2,2,5,6,1,5,7,7,0,4>>
       [] g = <<2, 0>> -> <<1,5,5,4,5,5,1,3,6,4,6,7,2,5,0,2,2,6,1,2,3,3,3,0>>
       [] g = <<2, 1>> -> <<2,6,3,0,7,5,1,7,6,7,6,5,6,5,4,3,1,1,1,0,1,5,5,3>>
       [] g = <<2, 2>> -> <<7,5,1,1,7,4,6,5,4,4,2,6,2,4,1,1,6,6,1,3,1,1,1,4>>
       [] g = <<3, 0>> -> <<5,7,1,1,5,2,4,3,7,2,1,7,4,1,5,6,2,7,3,2,5,0,0,1>>
       [] g = <<3, 1>> -> <<1,6,5,2,3,2,4,1,3,4,1,6,2,1,7,3,0,3,6,5,6,1,5,5>>
       [] g = <<3, 2>> -> <<7,1,1,4,4,2,1,7,7,2,7,0,4,1,5,1,1,0,0,4,6,2,0,2>>]

\* k.bit_length() for the small arguments the model draws with
BitLength(n) == IF n = 0 THEN 0 ELSE IF n < 2 THEN 1 ELSE IF n < 4 THEN 2 ELSE 3

\* getrandbits(k), k <= 3, at stream position pos: the top k bits of the word
GetRandBits(g, k, pos) == Words[g][pos] \div (2 ^ (3 - k))

\* Random._randbelow(n): draw bit_length(n) bits until the draw is < n
RECURSIVE RandBelow(_, _, _)
RandBelow(g, n, pos) ==
  LET r == GetRandBits(g, BitLength(n), pos)
  IN IF r < n THEN [val |-> r, pos |-> pos + 1] ELSE RandBelow(g, n, pos + 1)

Swap(x, i, j) == [x EXCEPT ![i] = x[j], ![j] = x[i]]

\* random.shuffle(x): for i in reversed(range(1, len(x))): j = randbelow(i + 1);
\* x[i], x[j] = x[j], x[i]   (i is the 0-based index)
RECURSIVE ShuffleFrom(_, _, _, _)
ShuffleFrom(g, x, i, pos) ==
  IF i < 1 THEN [list |-> x, pos |-> pos]
  ELSE LET r == RandBelow(g, i + 1, pos)
       IN ShuffleFrom(g, Swap(x, i + 1, r.val + 1), i - 1, r.pos)

Shuffle(g, x, pos) == ShuffleFrom(g, x, Len(x) - 1, pos)

\* random.choice(seq) = seq[randbelow(len(seq))]
Choice(g, s, pos) ==
  LET r == RandBelow(g, Len(s), pos) IN [val |-> s[r.val + 1], pos |-> r.pos]

\* ------------------------------------------------------------ SimpleCRUSH
IsUp(om, o) == om[o].state = "up"

\* domains[rack].append(osd_id) on the defaultdict (keys keep insertion order)
FdAppend(fd, rack, id) ==
  IF \E i \in 1..Len(fd) : fd[i].rack = rack
  THEN [i \in 1..Len(fd) |->
          IF fd[i].rack = rack THEN [fd[i] EXCEPT !.osds = Append(@, id)] ELSE fd[i]]
  ELSE Append(fd, [rack |-> rack, osds |-> <<id>>])

RECURSIVE BuildFailureMapUpTo(_, _)
BuildFailureMapUpTo(om, n) ==
  IF n = 0 THEN <<>>
  ELSE LET fd == BuildFailureMapUpTo(om, n - 1)
       IN IF IsUp(om, n - 1) THEN FdAppend(fd, om[n - 1].rack, n - 1) ELSE fd

\* SimpleCRUSH._build_failure_map: the up OSDs grouped by rack, as they are
\* when the SimpleCRUSH object is built
BuildFailureMap(om) == BuildFailureMapUpTo(om, Cardinality(DOMAIN om))

\* self.failure_domains[rack]
FdList(fd, rack) == fd[CHOOSE i \in 1..Len(fd) : fd[i].rack = rack].osds

\* the loop "for rack in available_racks" of select_osds; acc = [sel, pos].
\* available_racks are distinct dict keys, so "rack not in used_racks" holds.
RECURSIVE RackLoop(_, _, _, _, _, _, _)
RackLoop(om, fd, g, racks, i, n, acc) ==
  IF i > Len(racks) \/ Len(acc.sel) >= n THEN acc
  ELSE LET rack_osds == SelectSeq(FdList(fd, racks[i]), LAMBDA o : IsUp(om, o))
       IN IF rack_osds # <<>>
          THEN LET c == Choice(g, rack_osds, acc.pos)
               IN RackLoop(om, fd, g, racks, i + 1, n,
                           [sel |-> Append(acc.sel, c.val), pos |-> c.pos])
          ELSE RackLoop(om, fd, g, racks, i + 1, n, acc)

Min(a, b) == IF a < b THEN a ELSE b

\* the padding of select_osds without "osd_id not in selected_osds"
FillPhaseAnyUp(om, g, n, acc) ==
  IF Len(acc.sel) < n
  THEN LET all_available ==
             SelectSeq(Range(Cardinality(DOMAIN om)), LAMBDA o : IsUp(om, o))
           sh == Shuffle(g, all_available, acc.pos)
           needed == n - Len(acc.sel)
       IN acc.sel \o SubSeq(sh.list, 1, Min(needed, Len(sh.list)))
  ELSE acc.sel

\* the padding of select_osds from any up OSD not yet selected
FillPhase(om, g, n, acc) ==
  IF Len(acc.sel) < n
  THEN LET all_available ==
             SelectSeq(Range(Cardinality(DOMAIN om)),
                       LAMBDA o : IsUp(om, o) /\ o \notin Elems(acc.sel))
           sh == Shuffle(g, all_available, acc.pos)
           needed == n - Len(acc.sel)
       IN acc.sel \o SubSeq(sh.list, 1, Min(needed, Len(sh.list)))
  ELSE acc.sel

\* SimpleCRUSH.select_osds(pgid, replication_size); om is the live osd_map
\* (self.osds is the monitor's dict), fd the failure map built with the object
SelectOsds(om, fd, g, n) ==
  LET available_racks == [i \in 1..Len(fd) |-> fd[i].rack]
      sh == Shuffle(g, available_racks, 1)
      acc == RackLoop(om, fd, g, sh.list, 1, n, [sel |-> <<>>, pos |-> sh.pos])
      selected_osds == FillPhase(om, g, n, acc)
  IN SubSeq(selected_osds, 1, Min(n, Len(selected_osds)))

\* ---------------------------------------------------------------- Monitor
\* PlacementGroup.get_acting_set
GetActingSet(pg) ==
  IF pg.primary_osd = NoOsd THEN <<>> ELSE <<pg.primary_osd>> \o pg.replica_osds

\* the loop body of _update_pg_mappings with "len(osds) > pool.size" for ">="
MapPgStrict(pg, osds, size) ==
  IF osds # <<>>
  THEN [pg EXCEPT !.primary_osd = Head(osds),
                  !.replica_osds = Tail(osds),
                  !.state = IF Len(osds) > size THEN "active+clean"
                            ELSE "active+degraded"]
  ELSE [pg EXCEPT !.state = "inactive"]

\* the PG as the loop body of _update_pg_mappings leaves it, osds its placement
MapPg(pg, osds, size) ==
  IF osds # <<>>
  THEN [pg EXCEPT !.primary_osd = Head(osds),
                  !.replica_osds = Tail(osds),
                  !.state = IF Len(osds) >= size THEN "active+clean"
                            ELSE "active+degraded"]
  ELSE [pg EXCEPT !.state = "inactive"]

\* "self.osd_map[osd_id].pg_assignments.add(pg.pgid)" for the OSDs of a placement
Assign(om, osds, g) ==
  [o \in DOMAIN om |->
     IF o \in Elems(osds) THEN [om[o] EXCEPT !.pg_assignments = @ \cup {g}] ELSE om[o]]

\* pg_map.values() in insertion order: pool by pool, PG index ascending
RECURSIVE PgOrder(_)
PgOrder(gs) ==
  IF gs = {} THEN <<>>
  ELSE LET g == CHOOSE x \in gs :
                  \A y \in gs : x[1] < y[1] \/ (x[1] = y[1] /\ x[2] <= y[2])
       IN <<g>> \o PgOrder(gs \ {g})

\* the loop "for pg in self.pg_map.values()" of _update_pg_mappings from the
\* i-th PG on; acc = [osd_map, pg_map]
RECURSIVE UpdateLoop(_, _, _, _, _)
UpdateLoop(acc, cr, pl, order, i) ==
  IF i > Len(order) THEN acc
  ELSE LET g == order[i]
           pool == pl[acc.pg_map[g].pool_id]
           osds == SelectOsds(acc.osd_map, cr.failure_domains, g, pool.size)
       IN UpdateLoop([osd_map |-> Assign(acc.osd_map, osds, g),
                      pg_map |-> [acc.pg_map EXCEPT ![g] = MapPg(@, osds, pool.size)]],
                     cr, pl, order, i + 1)

\* Monitor._update_pg_mappings on (osd_map, crush, pools, pg_map)
UpdatePgMappings(om, cr, pl, pgm) ==
  IF ~cr.present \/ DOMAIN pl = {}
  THEN [osd_map |-> om, pg_map |-> pgm]
  ELSE UpdateLoop([osd_map |-> om, pg_map |-> pgm], cr, pl, PgOrder(DOMAIN pgm), 1)

NumAdded == Cardinality(DOMAIN osd_map)

NumPools == Cardinality(DOMAIN pools)

\* remove_osd calls so far that found their OSD: only add_osd and remove_osd
\* move the epoch
NumRemoves == epoch - InitialEpoch - NumAdded

\* OSD.__init__ (state UP, no PG assigned) with the rack of _initialize_cluster
NewOsd(i) == [osd_id |-> i, rack |-> Racks[i + 1], state |-> "up", pg_assignments |-> {}]

\* Pool.__init__ as create_pool calls it: min_size keeps its default
NewPool(pool_id, name, size, pg_num) ==
  [pool_id |-> pool_id, name |-> name, size |-> size, min_size |-> DefaultMinSize,
   pg_num |-> pg_num, objects |-> EmptyDict]

\* PlacementGroup.__init__
NewPg(pgid, pool_id) ==
  [pgid |-> pgid, pool_id |-> pool_id, primary_osd |-> NoOsd, replica_osds |-> <<>>,
   state |-> "inactive", objects |-> {}]

\* the epoch after a topology operation that bumps it
Bump(e) == e + 1

\* ----------------------------------------------------- history variable
NoWrite == [kind |-> "none", data |-> <<>>]

\* a topology operation ends every "put" entry
HistAfterTopology == [k \in DOMAIN hist |-> IF hist[k].kind = "put" THEN NoWrite ELSE hist[k]]

\* nothing recorded yet
NoSnap == [taken |-> FALSE]

\* a request thread that is not inside a call
Idle == [pc |-> "idle"]

Init ==
  /\ osd_map = EmptyDict
  /\ crush = [present |-> FALSE, failure_domains |-> <<>>]
  /\ pools = EmptyDict
  /\ pg_map = EmptyDict
  /\ epoch = InitialEpoch
  /\ disk = EmptyDict
  /\ hash_of = EmptyDict
  /\ ret = [op |-> "init", status |-> "ok"]
  /\ hist = [k \in PoolNames \X Objects |-> NoWrite]
  /\ snap = NoSnap
  /\ thr = [t \in Threads |-> Idle]
  /\ lock = NoThread

\* Monitor.add_osd, for the next OSD of _initialize_cluster; its store starts empty
AddOsd ==
  /\ NumAdded < MaxOsds
  /\ LET i == NumAdded
         om1 == DictSet(osd_map, i, NewOsd(i))
         cr1 == [present |-> TRUE, failure_domains |-> BuildFailureMap(om1)]
         u == UpdatePgMappings(om1, cr1, pools, pg_map)
     IN /\ osd_map' = u.osd_map
        /\ crush' = cr1
        /\ pg_map' = u.pg_map
        /\ disk' = DictSet(disk, i, [obj |-> EmptyDict, meta |-> EmptyDict])
  /\ epoch' = Bump(epoch)
  /\ ret' = [op |-> "add_osd", status |-> "ok"]
  /\ hist' = HistAfterTopology
  /\ UNCHANGED <<pools, hash_of>>
  /\ UNCHANGED rest

\* Monitor.remove_osd(osd_id)
RemoveOsd(osd_id) ==
  /\ NumRemoves < MaxRemoves
  /\ IF osd_id \in DOMAIN osd_map
     THEN LET om1 == [osd_map EXCEPT ![osd_id].state = "out"]
              u == UpdatePgMappings(om1, crush, pools, pg_map)
          IN /\ osd_map' = u.osd_map
             /\ pg_map' = u.pg_map
             /\ epoch' = Bump(epoch)
             /\ ret' = [op |-> "remove_osd", status |-> "ok"]
             /\ hist' = HistAfterTopology
     ELSE /\ UNCHANGED <<osd_map, pg_map, epoch, hist>>
          /\ ret' = [op |-> "remove_osd", status |-> "unknown"]
  /\ UNCHANGED <<crush, pools, disk, hash_of>>
  /\ UNCHANGED rest

\* the epoch as create_pool leaves it
EpochAfterCreatePool(e) == e

\* the loop of create_pool with range(1, pg_num + 1) for range(pg_num)
WithNewPgsFromOne(pgm, pool_id, pg_num) ==
  [g \in (DOMAIN pgm) \cup ({pool_id} \X (1..pg_num)) |->
     IF g[1] = pool_id THEN NewPg(g, pool_id) ELSE pgm[g]]

\* the pg_map after the loop of create_pool that creates the pool's PGs
WithNewPgs(pgm, pool_id, pg_num) ==
  [g \in (DOMAIN pgm) \cup ({pool_id} \X (0..(pg_num - 1))) |->
     IF g[1] = pool_id THEN NewPg(g, pool_id) ELSE pgm[g]]

\* Monitor.create_pool(name, size, pg_num)
CreatePool(name, size, pg_num) ==
  /\ NumPools < MaxPools
  /\ LET pool_id == NumPools
         pl1 == DictSet(pools, pool_id, NewPool(pool_id, name, size, pg_num))
         u == UpdatePgMappings(osd_map, crush, pl1, WithNewPgs(pg_map, pool_id, pg_num))
     IN /\ pools' = pl1
        /\ pg_map' = u.pg_map
        /\ osd_map' = u.osd_map
        /\ ret' = [op |-> "create_pool", status |-> "ok", result |-> pool_id]
  /\ epoch' = EpochAfterCreatePool(epoch)
  /\ hist' = HistAfterTopology
  /\ UNCHANGED <<crush, disk, hash_of>>
  /\ UNCHANGED rest

\* the OSD state set_osd_state writes for a state string
StateAfter(old, s) == IF s \in {"up", "down", "out"} THEN s ELSE old

\* the epoch as set_osd_state leaves it
EpochAfterSetOsdState(e) == e

\* SimpleCephCluster.set_osd_state(osd_id, state)
SetOsdState(osd_id, s) ==
  /\ IF osd_id \in DOMAIN osd_map
     THEN LET om1 == [osd_map EXCEPT ![osd_id].state = StateAfter(@, s)]
              u == UpdatePgMappings(om1, crush, pools, pg_map)
          IN /\ osd_map' = u.osd_map
             /\ pg_map' = u.pg_map
             /\ epoch' = EpochAfterSetOsdState(epoch)
             /\ ret' = [op |-> "set_osd_state", status |-> "true"]
             /\ hist' = HistAfterTopology
     ELSE /\ UNCHANGED <<osd_map, pg_map, epoch, hist>>
          /\ ret' = [op |-> "set_osd_state", status |-> "false"]
  /\ UNCHANGED <<crush, pools, disk, hash_of>>
  /\ UNCHANGED rest

\* Monitor.get_cluster_status
GetClusterStatus ==
  LET total_pgs == Cardinality(DOMAIN pg_map)
      active_clean == Cardinality({g \in DOMAIN pg_map : pg_map[g].state = "active+clean"})
      degraded == Cardinality({g \in DOMAIN pg_map : pg_map[g].state = "active+degraded"})
      up_osds == Cardinality({o \in DOMAIN osd_map : IsUp(osd_map, o)})
  IN [health |-> IF active_clean = total_pgs THEN "HEALTH_OK" ELSE "HEALTH_WARN",
      osds |-> [up |-> up_osds, total |-> NumAdded],
      pgs |-> [total |-> total_pgs, active_clean |-> active_clean, degraded |-> degraded],
      pools |-> NumPools,
      epoch |-> epoch]

\* SimpleCephCluster.get_cluster_status
ClusterStatus ==
  /\ ret' = [op |-> "cluster_status", status |-> GetClusterStatus.health]
  /\ UNCHANGED <<osd_map, crush, pools, pg_map, epoch, disk, hash_of, hist>>
  /\ UNCHANGED rest

\* ------------------------------------------------------------------ OSD
\* hashlib.sha256(data).hexdigest(): one digest per byte string
Sha256(data) == [sha256 |-> data]

\* the file name "{pool_id}_{object_id}" under the OSD's objects directory
ObjKey(pool_id, object_id) == <<pool_id, object_id>>

\* OSD.store_object when neither the state check nor the I/O fails
StoreObject(d, key, data, metadata) ==
  [obj |-> DictSet(d.obj, key, data), meta |-> DictSet(d.meta, key, metadata)]

\* OSD.retrieve_object: data and metadata, or None
RetrieveObject(om, dk, o, key) ==
  IF IsUp(om, o) /\ key \in DOMAIN dk[o].obj /\ key \in DOMAIN dk[o].meta
  THEN [found |-> TRUE, data |-> dk[o].obj[key], metadata |-> dk[o].meta[key]]
  ELSE [found |-> FALSE]

\* OSD.delete_object
DeleteFiles(d, key) == [obj |-> DictDel(d.obj, key), meta |-> DictDel(d.meta, key)]

\* ---------------------------------------------------------------- RADOS
\* "for p in pools.values(): if p.name == pool_name": the first pool of that name
FindPool(pl, pool_name) ==
  IF \E p \in DOMAIN pl : pl[p].name = pool_name
  THEN CHOOSE p \in DOMAIN pl :
         /\ pl[p].name = pool_name
         /\ \A q \in DOMAIN pl : pl[q].name = pool_name => p <= q
  ELSE NoPool

\* the values hash(object_id) can take in this process
HashChoices(object_id) ==
  IF object_id \in DOMAIN hash_of THEN {hash_of[object_id]} ELSE HashValues

\* Pool.get_pg_id without the hash: every object in the pool's first PG
PgIdOfFirst(pool, h) == <<pool.pool_id, 0>>

\* Pool.get_pg_id with hash(object_id) = h, as the pgid "{pool_id}.{pg_id}"
PgIdOf(pool, h) == <<pool.pool_id, h % pool.pg_num>>

\* the metadata dict of put_object
Metadata(pool, object_id, data, pgid) ==
  [object_id |-> object_id, pool_id |-> pool.pool_id, size_bytes |-> Len(data),
   checksum |-> Sha256(data), pg_id |-> pgid]

\* store_object returns True on this OSD: it is up and its write does not fail
StoreSucceeds(om, o, iofail) == o \in DOMAIN om /\ IsUp(om, o) /\ o \notin iofail

\* successful_stores of put_object
SuccessfulStores(om, acting_set, iofail) ==
  SelectSeq(acting_set, LAMBDA o : StoreSucceeds(om, o, iofail))

\* the min_size check with <= for <
BelowMinInclusive(successful_stores, pool) == Len(successful_stores) <= pool.min_size

\* "if len(successful_stores) < pool.min_size: raise"
BelowMin(successful_stores, pool) == Len(successful_stores) < pool.min_size

\* the inactive check made on primary_osd instead of the PG state
IsUnmapped(pg) == pg.primary_osd = NoOsd

\* "if pg.state == PGState.INACTIVE" of put_object
IsInactive(pg) == pg.state = "inactive"

\* RADOS.put_object once pool and PG are resolved and the PG is active; the
\* stores of the OSDs in iofail fail with an I/O error before writing
PutReplicate(pool_name, pool, pgid, object_id, data, iofail) ==
  LET metadata == Metadata(pool, object_id, data, pgid)
      acting_set == GetActingSet(pg_map[pgid])
      successful_stores == SuccessfulStores(osd_map, acting_set, iofail)
      key == ObjKey(pool.pool_id, object_id)
  IN /\ disk' = [o \in DOMAIN disk |->
                   IF o \in Elems(successful_stores)
                   THEN StoreObject(disk[o], key, data, metadata) ELSE disk[o]]
     /\ IF BelowMin(successful_stores, pool)
        THEN /\ ret' = [op |-> "put", status |-> "ReplicationBelowMin"]
             /\ hist' = [hist EXCEPT ![<<pool_name, object_id>>] =
                                        IF @.kind = "put" THEN NoWrite ELSE @]
             /\ UNCHANGED <<pools, pg_map>>
        ELSE /\ pools' = [pools EXCEPT ![pool.pool_id].objects =
                                          DictSet(@, object_id, metadata)]
             /\ pg_map' = [pg_map EXCEPT ![pgid].objects = @ \cup {object_id}]
             /\ ret' = [op |-> "put", status |-> "ok", replicas |-> successful_stores]
             /\ hist' = [hist EXCEPT ![<<pool_name, object_id>>] =
                                        [kind |-> "put", data |-> data]]

\* RADOS.put_object(pool_name, object_id, data); iofail: the OSDs whose disk
\* fails during the call
PutObject(pool_name, object_id, data, iofail) ==
  /\ LET pool_id == FindPool(pools, pool_name)
     IN IF pool_id = NoPool
        THEN /\ ret' = [op |-> "put", status |-> "PoolNotFound"]
             /\ UNCHANGED <<pools, pg_map, disk, hash_of, hist>>
        ELSE \E h \in HashChoices(object_id) :
               LET pool == pools[pool_id]
                   pgid == PgIdOf(pool, h)
               IN /\ hash_of' = DictSet(hash_of, object_id, h)
                  /\ IF pgid \notin DOMAIN pg_map
                     THEN /\ ret' = [op |-> "put", status |-> "PgMissing"]
                          /\ UNCHANGED <<pools, pg_map, disk, hist>>
                     ELSE IF IsInactive(pg_map[pgid])
                     THEN /\ ret' = [op |-> "put", status |-> "PgInactive"]
                          /\ UNCHANGED <<pools, pg_map, disk, hist>>
                     ELSE PutReplicate(pool_name, pool, pgid, object_id, data, iofail)
  /\ UNCHANGED <<osd_map, crush, epoch>>
  /\ UNCHANGED rest

\* the loop of get_object without the checksum comparison
RECURSIVE ReadFromUnchecked(_, _, _, _, _)
ReadFromUnchecked(om, dk, acting_set, i, key) ==
  IF i > Len(acting_set) THEN [found |-> FALSE]
  ELSE LET r == IF acting_set[i] \in DOMAIN om
                THEN RetrieveObject(om, dk, acting_set[i], key)
                ELSE [found |-> FALSE]
       IN IF r.found THEN r ELSE ReadFromUnchecked(om, dk, acting_set, i + 1, key)

\* the loop of get_object over the acting set, from its i-th OSD on
RECURSIVE ReadFrom(_, _, _, _, _)
ReadFrom(om, dk, acting_set, i, key) ==
  IF i > Len(acting_set) THEN [found |-> FALSE]
  ELSE LET r == IF acting_set[i] \in DOMAIN om
                THEN RetrieveObject(om, dk, acting_set[i], key)
                ELSE [found |-> FALSE]
       IN IF r.found /\ Sha256(r.data) = r.metadata.checksum
          THEN r
          ELSE ReadFrom(om, dk, acting_set, i + 1, key)

\* the lookup answered from the OSD files instead of pool.objects
KnownOnDisk(pool_name, object_id) ==
  /\ FindPool(pools, pool_name) # NoPool
  /\ \E o \in DOMAIN disk :
        ObjKey(FindPool(pools, pool_name), object_id) \in DOMAIN disk[o].obj

\* whether pool_name resolves and the pool lists the object
Known(pool_name, object_id) ==
  /\ FindPool(pools, pool_name) # NoPool
  /\ object_id \in DOMAIN pools[FindPool(pools, pool_name)].objects

\* RADOS.get_object(pool_name, object_id): (data, metadata), or None
GetObject(pool_name, object_id) ==
  IF ~Known(pool_name, object_id)
  THEN [found |-> FALSE]
  ELSE LET pool == pools[FindPool(pools, pool_name)]
       IN ReadFrom(osd_map, disk, GetActingSet(pg_map[PgIdOf(pool, hash_of[object_id])]),
                   1, ObjKey(pool.pool_id, object_id))

\* RADOS.get_object as an operation
Get(pool_name, object_id) ==
  /\ ret' = [op |-> "get", status |-> IF GetObject(pool_name, object_id).found
                                      THEN "found" ELSE "none",
             result |-> GetObject(pool_name, object_id)]
  /\ UNCHANGED <<osd_map, crush, pools, pg_map, epoch, disk, hash_of, hist>>
  /\ UNCHANGED rest

\* delete_object without "del pool.objects[object_id]"
ForgetNothing(pl, pool_id, object_id) == pl

\* delete_object dropping the pool's entry instead of the object's
ForgetPool(pl, pool_id, object_id) == DictDel(pl, pool_id)

\* "del pool.objects[object_id]" of delete_object
ForgetObject(pl, pool_id, object_id) ==
  [pl EXCEPT ![pool_id].objects = DictDel(@, object_id)]

\* RADOS.delete_object(pool_name, object_id)
DeleteObject(pool_name, object_id) ==
  /\ IF ~Known(pool_name, object_id)
     THEN /\ ret' = [op |-> "delete", status |-> "false"]
          /\ UNCHANGED <<pools, pg_map, disk, hist>>
     ELSE LET pool == pools[FindPool(pools, pool_name)]
              pgid == PgIdOf(pool, hash_of[object_id])
              acting_set == GetActingSet(pg_map[pgid])
              key == ObjKey(pool.pool_id, object_id)
          IN /\ disk' = [o \in DOMAIN disk |->
                           IF o \in Elems(acting_set)
                           THEN DeleteFiles(disk[o], key) ELSE disk[o]]
             /\ pools' = ForgetObject(pools, pool.pool_id, object_id)
             /\ pg_map' = [pg_map EXCEPT ![pgid].objects = @ \ {object_id}]
             /\ ret' = [op |-> "delete", status |-> "true"]
             /\ hist' = [hist EXCEPT ![<<pool_name, object_id>>] =
                                        [kind |-> "deleted", data |-> <<>>]]
  /\ UNCHANGED <<osd_map, crush, epoch, hash_of>>
  /\ UNCHANGED rest

\* the copies on the OSDs whose bytes were overwritten out of band
Corrupted ==
  {c \in (DOMAIN disk) \X ((0..(MaxPools - 1)) \X Objects) :
     c[2] \in DOMAIN disk[c[1]].obj /\ disk[c[1]].obj[c[2]] = CorruptBytes}

\* the environment overwrites the bytes of one stored copy, not its metadata
Corrupt(o, key) ==
  /\ o \in DOMAIN disk
  /\ key \in DOMAIN disk[o].obj
  /\ disk[o].obj[key] # CorruptBytes
  /\ Cardinality(Corrupted) < MaxCorrupt
  /\ disk' = [disk EXCEPT ![o].obj[key] = CorruptBytes]
  /\ ret' = [op |-> "corrupt", status |-> "ok"]
  /\ UNCHANGED <<osd_map, crush, pools, pg_map, epoch, hash_of, hist>>
  /\ UNCHANGED rest

\* RADOS.list_objects(pool_name): one record per object of pool.objects
ListObjects(pool_name) ==
  IF FindPool(pools, pool_name) = NoPool THEN {}
  ELSE LET pool == pools[FindPool(pools, pool_name)]
       IN {LET pg == pg_map[PgIdOf(pool, hash_of[object_id])]
               acting_set == GetActingSet(pg)
           IN [object_id |-> object_id,
               size_bytes |-> pool.objects[object_id].size_bytes,
               pg_id |-> pg.pgid,
               healthy_replicas |->
                 Len(SelectSeq(acting_set,
                               LAMBDA o : o \in DOMAIN osd_map /\ IsUp(osd_map, o))),
               total_replicas |-> Len(acting_set)] :
           object_id \in DOMAIN pool.objects}

\* RADOS.list_objects as an operation
List(pool_name) ==
  /\ ret' = [op |-> "list", status |-> "ok", result |-> ListObjects(pool_name)]
  /\ UNCHANGED <<osd_map, crush, pools, pg_map, epoch, disk, hash_of, hist>>
  /\ UNCHANGED rest

\* ------------------------------------------- concurrent create_pool calls
(* Monitor.create_pool run by request threads, the Monitor holding no      *)
(* lock: a thread can be preempted between "pool_id = len(self.pools)",    *)
(* "self.pools[pool_id] = pool", each "self.pg_map[pgid] = pg" and the     *)
(* call of _update_pg_mappings, which runs here as one step.               *)

\* pool_id = len(self.pools); pool = Pool(pool_id, name, size=size, pg_num=pg_num)
CpBegin(t, name, size, pg_num) ==
  /\ thr[t].pc = "idle"
  /\ thr' = [thr EXCEPT ![t] = [pc |-> "insert_pool", pool_id |-> NumPools,
                                name |-> name, size |-> size, pg_num |-> pg_num, i |-> 0]]
  /\ UNCHANGED <<osd_map, crush, pools, pg_map, epoch, disk, hash_of, ret, hist, snap, lock>>

\* self.pools[pool_id] = pool
CpInsertPool(t) ==
  /\ thr[t].pc = "insert_pool"
  /\ pools' = DictSet(pools, thr[t].pool_id,
                      NewPool(thr[t].pool_id, thr[t].name, thr[t].size, thr[t].pg_num))
  /\ thr' = [thr EXCEPT ![t].pc = "create_pgs"]
  /\ UNCHANGED <<osd_map, crush, pg_map, epoch, disk, hash_of, ret, hist, snap, lock>>

\* one round of "for pg_num in range(pool.pg_num): self.pg_map[pgid] = pg"
CpCreatePg(t) ==
  /\ thr[t].pc = "create_pgs"
  /\ IF thr[t].i < thr[t].pg_num
     THEN /\ pg_map' = DictSet(pg_map, <<thr[t].pool_id, thr[t].i>>,
                               NewPg(<<thr[t].pool_id, thr[t].i>>, thr[t].pool_id))
          /\ thr' = [thr EXCEPT ![t].i = @ + 1]
     ELSE /\ thr' = [thr EXCEPT ![t].pc = "update"]
          /\ UNCHANGED pg_map
  /\ UNCHANGED <<osd_map, crush, pools, epoch, disk, hash_of, ret, hist, snap, lock>>

\* self._update_pg_mappings(); return pool_id
CpUpdate(t) ==
  /\ thr[t].pc = "update"
  /\ LET u == UpdatePgMappings(osd_map, crush, pools, pg_map)
     IN /\ osd_map' = u.osd_map
        /\ pg_map' = u.pg_map
  /\ thr' = [thr EXCEPT ![t].pc = "done"]
  /\ ret' = [op |-> "create_pool", status |-> "ok", result |-> thr[t].pool_id]
  /\ epoch' = EpochAfterCreatePool(epoch)
  /\ hist' = HistAfterTopology
  /\ UNCHANGED <<crush, pools, disk, hash_of, snap, lock>>

\* ----------------------------------------- concurrent set_osd_state calls
(* SimpleCephCluster.set_osd_state run by request threads, holding no      *)
(* lock: a thread can be preempted after the write of the OSD state and,   *)
(* in _update_pg_mappings, between the call of select_osds and each of the *)
(* writes "pg.primary_osd =", "pg.replica_osds =" and "pg.state =".        *)
(* select_osds runs here as one step, and the pg_assignments of a PG are   *)
(* added in the step that writes its state.                                *)

\* "self.monitor.osd_map[osd_id].state = ..." and the entry of
\* _update_pg_mappings, or "return False" for an unknown id
SsBegin(t, osd_id, s) ==
  /\ thr[t].pc = "idle"
  /\ IF osd_id \in DOMAIN osd_map
     THEN /\ osd_map' = [osd_map EXCEPT ![osd_id].state = StateAfter(@, s)]
          /\ thr' = [thr EXCEPT ![t] =
                       [pc |-> IF ~crush.present \/ DOMAIN pools = {}
                               THEN "return" ELSE "select",
                        osd_id |-> osd_id, i |-> 1, osds |-> <<>>]]
          /\ UNCHANGED ret
     ELSE /\ thr' = [thr EXCEPT ![t] = [pc |-> "done", osd_id |-> osd_id,
                                        i |-> 1, osds |-> <<>>]]
          /\ ret' = [op |-> "set_osd_state", status |-> "false"]
          /\ UNCHANGED osd_map
  /\ UNCHANGED <<crush, pools, pg_map, epoch, disk, hash_of, hist, snap, lock>>

\* the head of the loop "for pg in self.pg_map.values()": the next PG, its
\* "osds = self.crush.select_osds(pg.pgid, pool.size)" and the else branch
SsSelect(t) ==
  /\ thr[t].pc = "select"
  /\ LET order == PgOrder(DOMAIN pg_map)
     IN IF thr[t].i > Len(order)
        THEN /\ thr' = [thr EXCEPT ![t].pc = "return"]
             /\ UNCHANGED pg_map
        ELSE LET g == order[thr[t].i]
                 osds == SelectOsds(osd_map, crush.failure_domains, g,
                                    pools[pg_map[g].pool_id].size)
             IN IF osds # <<>>
                THEN /\ thr' = [thr EXCEPT ![t].pc = "primary", ![t].osds = osds]
                     /\ UNCHANGED pg_map
                ELSE /\ pg_map' = [pg_map EXCEPT ![g].state = "inactive"]
                     /\ thr' = [thr EXCEPT ![t].i = @ + 1]
  /\ UNCHANGED <<osd_map, crush, pools, epoch, disk, hash_of, ret, hist, snap, lock>>

\* pg.primary_osd = osds[0]
SsPrimary(t) ==
  /\ thr[t].pc = "primary"
  /\ pg_map' = [pg_map EXCEPT ![PgOrder(DOMAIN pg_map)[thr[t].i]].primary_osd =
                                 Head(thr[t].osds)]
  /\ thr' = [thr EXCEPT ![t].pc = "replicas"]
  /\ UNCHANGED <<osd_map, crush, pools, epoch, disk, hash_of, ret, hist, snap, lock>>

\* pg.replica_osds = osds[1:]
SsReplicas(t) ==
  /\ thr[t].pc = "replicas"
  /\ pg_map' = [pg_map EXCEPT ![PgOrder(DOMAIN pg_map)[thr[t].i]].replica_osds =
                                 Tail(thr[t].osds)]
  /\ thr' = [thr EXCEPT ![t].pc = "state"]
  /\ UNCHANGED <<osd_map, crush, pools, epoch, disk, hash_of, ret, hist, snap, lock>>

\* "pg.state = ACTIVE_CLEAN if len(osds) >= pool.size else ACTIVE_DEGRADED"
\* and the loop that adds the PG to the pg_assignments of its OSDs
SsState(t) ==
  /\ thr[t].pc = "state"
  /\ LET g == PgOrder(DOMAIN pg_map)[thr[t].i]
     IN /\ pg_map' = [pg_map EXCEPT ![g].state =
                         IF Len(thr[t].osds) >= pools[pg_map[g].pool_id].size
                         THEN "active+clean" ELSE "active+degraded"]
        /\ osd_map' = Assign(osd_map, thr[t].osds, g)
  /\ thr' = [thr EXCEPT ![t].pc = "select", ![t].i = @ + 1]
  /\ UNCHANGED <<crush, pools, epoch, disk, hash_of, ret, hist, snap, lock>>

\* return True
SsReturn(t) ==
  /\ thr[t].pc = "return"
  /\ thr' = [thr EXCEPT ![t].pc = "done"]
  /\ ret' = [op |-> "set_osd_state", status |-> "true"]
  /\ epoch' = EpochAfterSetOsdState(epoch)
  /\ hist' = HistAfterTopology
  /\ UNCHANGED <<osd_map, crush, pools, pg_map, disk, hash_of, snap, lock>>

\* ------------------------------------ concurrent object operations (RADOS)
(* put_object, get_object and delete_object run by request threads.  put   *)
(* and delete run under RADOS.lock, get takes no lock.  A thread can be    *)
(* preempted between the file operations of the OSDs: open(obj_path, 'wb') *)
(* leaves the data file empty until the with block closes it with the new  *)
(* bytes, and the same holds for the .meta file; os.remove of the data     *)
(* file and of the .meta file are two steps; retrieve_object reads the     *)
(* data file and the .meta file in two steps.  The lookups before the      *)
(* replica loop and the writes to pool.objects and pg.objects after it run *)
(* as one step each.  No disk fails here.                                  *)

\* a .meta file just opened with open(meta_path, 'w'): empty, not JSON
EmptyMeta == [truncated |-> TRUE]

\* a call of RADOS as a request thread enters it
Call(op, pool_name, object_id, data) ==
  [pc |-> IF op = "get" THEN "lookup" ELSE "acquire", op |-> op,
   pool_name |-> pool_name, object_id |-> object_id, data |-> data,
   pool_id |-> NoPool, pgid |-> <<>>, acting_set |-> <<>>, i |-> 1,
   stores |-> <<>>, read |-> <<>>, prev |-> [found |-> FALSE], intact |-> FALSE,
   consistent |-> FALSE,
   status |-> "running", result |-> [found |-> FALSE]]

\* whether every OSD of an acting set is up and stores the version that
\* pool.objects records for the object, data and metadata (history, kept in
\* the thread's record for the properties only, as "consistent" is)
Intact(pool, acting_set, object_id) ==
  /\ object_id \in DOMAIN pool.objects
  /\ \A x \in Elems(acting_set) :
       /\ x \in DOMAIN osd_map /\ IsUp(osd_map, x)
       /\ ObjKey(pool.pool_id, object_id) \in DOMAIN disk[x].obj
       /\ ObjKey(pool.pool_id, object_id) \in DOMAIN disk[x].meta
       /\ disk[x].meta[ObjKey(pool.pool_id, object_id)] = pool.objects[object_id]
       /\ Sha256(disk[x].obj[ObjKey(pool.pool_id, object_id)]) =
            pool.objects[object_id].checksum

\* no OSD of the acting set stores a data or a .meta file of the object
AbsentOnActingSet(pool, acting_set, object_id) ==
  \A x \in Elems(acting_set) :
    /\ ObjKey(pool.pool_id, object_id) \notin DOMAIN disk[x].obj
    /\ ObjKey(pool.pool_id, object_id) \notin DOMAIN disk[x].meta

\* every OSD of the acting set stores the version pool.objects records
SameVersionOnActingSet(pool, acting_set, object_id) ==
  \A x \in Elems(acting_set) :
    /\ ObjKey(pool.pool_id, object_id) \in DOMAIN disk[x].obj
    /\ ObjKey(pool.pool_id, object_id) \in DOMAIN disk[x].meta
    /\ disk[x].meta[ObjKey(pool.pool_id, object_id)] = pool.objects[object_id]
    /\ Sha256(disk[x].obj[ObjKey(pool.pool_id, object_id)]) =
         pool.objects[object_id].checksum

\* whether the stored state of an object is that of one completed write: the
\* object is absent from pool.objects and from every OSD of its PG's acting
\* set, or every OSD of the acting set holds the version pool.objects records
Consistent(pool_name, object_id) ==
  IF FindPool(pools, pool_name) = NoPool THEN TRUE
  ELSE LET pool == pools[FindPool(pools, pool_name)]
       IN IF object_id \notin DOMAIN hash_of
          THEN object_id \notin DOMAIN pool.objects
          ELSE IF PgIdOf(pool, hash_of[object_id]) \notin DOMAIN pg_map THEN TRUE
          ELSE LET acting_set == GetActingSet(pg_map[PgIdOf(pool, hash_of[object_id])])
               IN IF object_id \in DOMAIN pool.objects
                  THEN SameVersionOnActingSet(pool, acting_set, object_id)
                  ELSE AbsentOnActingSet(pool, acting_set, object_id)

\* the thread's record when its call has returned or raised
Returned(r, status, result) ==
  [r EXCEPT !.pc = "done", !.status = status, !.result = result]

\* cluster.put_object(...) / cluster.delete_object(...) called by a request
BeginWrite(t, op, pool_name, object_id, data) ==
  /\ thr[t].pc = "idle"
  /\ thr' = [thr EXCEPT ![t] = Call(op, pool_name, object_id, data)]
  /\ UNCHANGED <<osd_map, crush, pools, pg_map, epoch, disk, hash_of, ret, hist, snap, lock>>

\* "with self.lock:" entered: blocks while another thread holds the lock
Acquire(t) ==
  /\ thr[t].pc = "acquire"
  /\ lock = NoThread
  /\ lock' = t
  /\ thr' = [thr EXCEPT ![t].pc = "resolve",
                        ![t].consistent = Consistent(thr[t].pool_name, thr[t].object_id)]
  /\ UNCHANGED <<osd_map, crush, pools, pg_map, epoch, disk, hash_of, ret, hist, snap>>

\* the with block left by an exception: the lock with its release left out
KeepLocked(l) == l

\* the with block left, by return or by an exception: the lock is released
Release(l) == NoThread

\* put_object from the pool lookup to "acting_set = pg.get_acting_set()"
PoResolve(t) ==
  /\ thr[t].pc = "resolve" /\ thr[t].op = "put"
  /\ LET pool_id == FindPool(pools, thr[t].pool_name)
     IN IF pool_id = NoPool
        THEN /\ thr' = [thr EXCEPT ![t] = Returned(@, "PoolNotFound", [found |-> FALSE])]
             /\ ret' = [op |-> "put", status |-> "PoolNotFound"]
             /\ lock' = Release(lock)
             /\ UNCHANGED hash_of
        ELSE \E h \in HashChoices(thr[t].object_id) :
               LET pool == pools[pool_id]
                   pgid == PgIdOf(pool, h)
               IN /\ hash_of' = DictSet(hash_of, thr[t].object_id, h)
                  /\ IF pgid \notin DOMAIN pg_map
                     THEN /\ thr' = [thr EXCEPT ![t] =
                                       Returned(@, "PgMissing", [found |-> FALSE])]
                          /\ ret' = [op |-> "put", status |-> "PgMissing"]
                          /\ lock' = Release(lock)
                     ELSE IF IsInactive(pg_map[pgid])
                     THEN /\ thr' = [thr EXCEPT ![t] =
                                       Returned(@, "PgInactive", [found |-> FALSE])]
                          /\ ret' = [op |-> "put", status |-> "PgInactive"]
                          /\ lock' = Release(lock)
                     ELSE /\ thr' = [thr EXCEPT
                                       ![t].pc = "osd", ![t].pool_id = pool_id,
                                       ![t].pgid = pgid,
                                       ![t].acting_set = GetActingSet(pg_map[pgid]),
                                       ![t].prev =
                                         IF thr[t].object_id \in DOMAIN pool.objects
                                         THEN [found |-> TRUE,
                                               metadata |-> pool.objects[thr[t].object_id]]
                                         ELSE [found |-> FALSE],
                                       ![t].intact =
                                         Intact(pool, GetActingSet(pg_map[pgid]),
                                                thr[t].object_id)]
                          /\ UNCHANGED <<ret, lock>>
  /\ UNCHANGED <<osd_map, crush, pools, pg_map, epoch, disk, hist, snap>>

\* the head of "for osd_id in acting_set" of put_object and, in store_object,
\* the state check and open(obj_path, 'wb'), which empties the data file
PoOpenData(t) ==
  /\ thr[t].pc = "osd" /\ thr[t].op = "put"
  /\ LET key == ObjKey(thr[t].pool_id, thr[t].object_id)
     IN IF thr[t].i > Len(thr[t].acting_set)
        THEN /\ thr' = [thr EXCEPT ![t].pc = "commit"]
             /\ UNCHANGED disk
        ELSE LET o == thr[t].acting_set[thr[t].i]
             IN IF StoreSucceeds(osd_map, o, {})
                THEN /\ disk' = [disk EXCEPT ![o].obj = DictSet(@, key, <<>>)]
                     /\ thr' = [thr EXCEPT ![t].pc = "data"]
                ELSE /\ thr' = [thr EXCEPT ![t].i = @ + 1]
                     /\ UNCHANGED disk
  /\ UNCHANGED <<osd_map, crush, pools, pg_map, epoch, hash_of, ret, hist, snap, lock>>

\* f.write(data) and the close of the data file
PoWriteData(t) ==
  /\ thr[t].pc = "data"
  /\ disk' = [disk EXCEPT ![thr[t].acting_set[thr[t].i]].obj =
                DictSet(@, ObjKey(thr[t].pool_id, thr[t].object_id), thr[t].data)]
  /\ thr' = [thr EXCEPT ![t].pc = "meta_open"]
  /\ UNCHANGED <<osd_map, crush, pools, pg_map, epoch, hash_of, ret, hist, snap, lock>>

\* open(meta_path, 'w'), which empties the .meta file
PoOpenMeta(t) ==
  /\ thr[t].pc = "meta_open"
  /\ disk' = [disk EXCEPT ![thr[t].acting_set[thr[t].i]].meta =
                DictSet(@, ObjKey(thr[t].pool_id, thr[t].object_id), EmptyMeta)]
  /\ thr' = [thr EXCEPT ![t].pc = "meta"]
  /\ UNCHANGED <<osd_map, crush, pools, pg_map, epoch, hash_of, ret, hist, snap, lock>>

\* json.dump(metadata, f), the close of the .meta file, "return True" and
\* successful_stores.append(osd_id)
PoWriteMeta(t) ==
  /\ thr[t].pc = "meta"
  /\ disk' = [disk EXCEPT ![thr[t].acting_set[thr[t].i]].meta =
                DictSet(@, ObjKey(thr[t].pool_id, thr[t].object_id),
                        Metadata(pools[thr[t].pool_id], thr[t].object_id,
                                 thr[t].data, thr[t].pgid))]
  /\ thr' = [thr EXCEPT ![t].pc = "osd", ![t].i = @ + 1,
                        ![t].stores = Append(@, thr[t].acting_set[thr[t].i])]
  /\ UNCHANGED <<osd_map, crush, pools, pg_map, epoch, hash_of, ret, hist, snap, lock>>

\* put_object after the replica loop: the min_size check, the writes to
\* pool.objects and pg.objects, the return
PoCommit(t) ==
  /\ thr[t].pc = "commit" /\ thr[t].op = "put"
  /\ LET pool == pools[thr[t].pool_id]
         k == <<thr[t].pool_name, thr[t].object_id>>
         metadata == Metadata(pool, thr[t].object_id, thr[t].data, thr[t].pgid)
     IN IF BelowMin(thr[t].stores, pool)
        THEN /\ thr' = [thr EXCEPT ![t] =
                          Returned(@, "ReplicationBelowMin", [found |-> FALSE])]
             /\ ret' = [op |-> "put", status |-> "ReplicationBelowMin"]
             /\ hist' = [hist EXCEPT ![k] = IF @.kind = "put" THEN NoWrite ELSE @]
             /\ UNCHANGED <<pools, pg_map>>
        ELSE /\ pools' = [pools EXCEPT ![pool.pool_id].objects =
                                          DictSet(@, thr[t].object_id, metadata)]
             /\ pg_map' = [pg_map EXCEPT ![thr[t].pgid].objects =
                                            @ \cup {thr[t].object_id}]
             /\ thr' = [thr EXCEPT ![t] = Returned(@, "ok", [found |-> FALSE])]
             /\ ret' = [op |-> "put", status |-> "ok", replicas |-> thr[t].stores]
             /\ hist' = [hist EXCEPT ![k] = [kind |-> "put", data |-> thr[t].data]]
  /\ lock' = Release(lock)
  /\ UNCHANGED <<osd_map, crush, epoch, disk, hash_of, snap>>

\* delete_object from the pool lookup to "acting_set = pg.get_acting_set()"
DoResolve(t) ==
  /\ thr[t].pc = "resolve" /\ thr[t].op = "delete"
  /\ IF ~Known(thr[t].pool_name, thr[t].object_id)
     THEN /\ thr' = [thr EXCEPT ![t] = Returned(@, "false", [found |-> FALSE])]
          /\ ret' = [op |-> "delete", status |-> "false"]
          /\ lock' = Release(lock)
     ELSE LET pool == pools[FindPool(pools, thr[t].pool_name)]
              pgid == PgIdOf(pool, hash_of[thr[t].object_id])
          IN /\ thr' = [thr EXCEPT ![t].pc = "osd", ![t].pool_id = pool.pool_id,
                                   ![t].pgid = pgid,
                                   ![t].acting_set = GetActingSet(pg_map[pgid])]
             /\ UNCHANGED <<ret, lock>>
  /\ UNCHANGED <<osd_map, crush, pools, pg_map, epoch, disk, hash_of, hist, snap>>

\* the head of "for osd_id in acting_set" of delete_object and, in
\* OSD.delete_object, "if obj_path.exists(): os.remove(obj_path)"
DoRemoveData(t) ==
  /\ thr[t].pc = "osd" /\ thr[t].op = "delete"
  /\ LET key == ObjKey(thr[t].pool_id, thr[t].object_id)
     IN IF thr[t].i > Len(thr[t].acting_set)
        THEN /\ thr' = [thr EXCEPT ![t].pc = "commit"]
             /\ UNCHANGED disk
        ELSE LET o == thr[t].acting_set[thr[t].i]
             IN IF o \in DOMAIN osd_map
                THEN /\ disk' = [disk EXCEPT ![o].obj = DictDel(@, key)]
                     /\ thr' = [thr EXCEPT ![t].pc = "remove_meta"]
                ELSE /\ thr' = [thr EXCEPT ![t].i = @ + 1]
                     /\ UNCHANGED disk
  /\ UNCHANGED <<osd_map, crush, pools, pg_map, epoch, hash_of, ret, hist, snap, lock>>

\* "if meta_path.exists(): os.remove(meta_path)"
DoRemoveMeta(t) ==
  /\ thr[t].pc = "remove_meta"
  /\ disk' = [disk EXCEPT ![thr[t].acting_set[thr[t].i]].meta =
                DictDel(@, ObjKey(thr[t].pool_id, thr[t].object_id))]
  /\ thr' = [thr EXCEPT ![t].pc = "osd", ![t].i = @ + 1]
  /\ UNCHANGED <<osd_map, crush, pools, pg_map, epoch, hash_of, ret, hist, snap, lock>>

\* "del pool.objects[object_id]", "pg.objects.discard(object_id)", return True
DoCommit(t) ==
  /\ thr[t].pc = "commit" /\ thr[t].op = "delete"
  /\ pools' = ForgetObject(pools, thr[t].pool_id, thr[t].object_id)
  /\ pg_map' = [pg_map EXCEPT ![thr[t].pgid].objects = @ \ {thr[t].object_id}]
  /\ thr' = [thr EXCEPT ![t] = Returned(@, "true", [found |-> FALSE])]
  /\ ret' = [op |-> "delete", status |-> "true"]
  /\ hist' = [hist EXCEPT ![<<thr[t].pool_name, thr[t].object_id>>] =
                             [kind |-> "deleted", data |-> <<>>]]
  /\ lock' = Release(lock)
  /\ UNCHANGED <<osd_map, crush, epoch, disk, hash_of, snap>>

\* get_object from the pool lookup to "acting_set = pg.get_acting_set()",
\* or "return None, None"
GoLookup(t, pool_name, object_id) ==
  /\ thr[t].pc = "idle"
  /\ IF ~Known(pool_name, object_id)
     THEN /\ thr' = [thr EXCEPT ![t] = Returned(Call("get", pool_name, object_id, <<>>),
                                                "none", [found |-> FALSE])]
          /\ ret' = [op |-> "get", status |-> "none", result |-> [found |-> FALSE]]
     ELSE LET pool == pools[FindPool(pools, pool_name)]
              pgid == PgIdOf(pool, hash_of[object_id])
          IN /\ thr' = [thr EXCEPT ![t] =
                          [Call("get", pool_name, object_id, <<>>) EXCEPT
                             !.pc = "osd", !.pool_id = pool.pool_id, !.pgid = pgid,
                             !.acting_set = GetActingSet(pg_map[pgid]),
                             !.prev = [found |-> TRUE,
                                       metadata |-> pool.objects[object_id]]]]
             /\ UNCHANGED ret
  /\ UNCHANGED <<osd_map, crush, pools, pg_map, epoch, disk, hash_of, hist, snap, lock>>

\* the head of "for osd_id in acting_set" of get_object and, in
\* retrieve_object, the state check, the two exists() and the read of the
\* data file; after the last OSD, "return None, None"
GoReadData(t) ==
  /\ thr[t].pc = "osd" /\ thr[t].op = "get"
  /\ LET key == ObjKey(thr[t].pool_id, thr[t].object_id)
     IN IF thr[t].i > Len(thr[t].acting_set)
        THEN /\ thr' = [thr EXCEPT ![t] = Returned(@, "none", [found |-> FALSE])]
             /\ ret' = [op |-> "get", status |-> "none", result |-> [found |-> FALSE]]
        ELSE LET o == thr[t].acting_set[thr[t].i]
             IN /\ IF /\ o \in DOMAIN osd_map
                      /\ IsUp(osd_map, o)
                      /\ key \in DOMAIN disk[o].obj
                      /\ key \in DOMAIN disk[o].meta
                   THEN thr' = [thr EXCEPT ![t].pc = "read_meta",
                                           ![t].read = disk[o].obj[key]]
                   ELSE thr' = [thr EXCEPT ![t].i = @ + 1]
                /\ UNCHANGED ret
  /\ UNCHANGED <<osd_map, crush, pools, pg_map, epoch, disk, hash_of, hist, snap, lock>>

\* the read of the .meta file (json.load fails on a missing or empty file,
\* and retrieve_object then returns None, None) and the checksum comparison
GoReadMeta(t) ==
  /\ thr[t].pc = "read_meta"
  /\ LET key == ObjKey(thr[t].pool_id, thr[t].object_id)
         o == thr[t].acting_set[thr[t].i]
     IN IF /\ key \in DOMAIN disk[o].meta
           /\ disk[o].meta[key] # EmptyMeta
           /\ Sha256(thr[t].read) = disk[o].meta[key].checksum
        THEN LET r == [found |-> TRUE, data |-> thr[t].read,
                       metadata |-> disk[o].meta[key]]
             IN /\ thr' = [thr EXCEPT ![t] = Returned(@, "found", r)]
                /\ ret' = [op |-> "get", status |-> "found", result |-> r]
        ELSE /\ thr' = [thr EXCEPT ![t].pc = "osd", ![t].i = @ + 1]
             /\ UNCHANGED ret
  /\ UNCHANGED <<osd_map, crush, pools, pg_map, epoch, disk, hash_of, hist, snap, lock>>

\* ------------------------------------------------------- specifications
\* SimpleCephCluster.__init__ has returned: every OSD of _initialize_cluster is added
Constructed == NumAdded = NumOsds

\* the disks that may fail during one put_object
IoFailSets == {S \in SUBSET (0..(NumOsds - 1)) : Cardinality(S) <= MaxIoFail}

(* The cluster as SimpleCephCluster builds and serves it: the OSDs are     *)
(* added first; then a pool is created, OSDs are marked down and up, and   *)
(* objects are put, read and deleted in any order.                         *)
Next ==
  \/ NumAdded < NumOsds /\ AddOsd
  \/ /\ Constructed
     /\ NumPools < MaxServedPools
     /\ \E size \in PoolSizes, pg_num \in PgNums : CreatePool("default", size, pg_num)
  \/ /\ Constructed
     /\ \E osd_id \in 0..(NumOsds - 1), s \in {"up", "down"} : SetOsdState(osd_id, s)
  \/ /\ Constructed
     /\ ClusterStatus
  \/ /\ Constructed
     /\ \E o \in Objects, d \in Bytes, iofail \in IoFailSets :
           PutObject("default", o, d, iofail)
  \/ /\ Constructed
     /\ \E o \in Objects : Get("default", o)
  \/ /\ Constructed
     /\ \E o \in Objects : DeleteObject("default", o)
  \/ /\ Constructed
     /\ List("default")

Spec == Init /\ [][Next]_vars

(* The Monitor alone, its operations called in any order: OSDs added       *)
(* between state changes and after the pool is created, OSDs removed, and  *)
(* set_osd_state called with unknown ids and state strings.                *)
NextMonitor ==
  \/ NumAdded < NumOsds /\ AddOsd
  \/ \E osd_id \in 0..NumOsds : RemoveOsd(osd_id)
  \/ /\ NumPools < MaxServedPools
     /\ \E size \in PoolSizes, pg_num \in PgNums : CreatePool("default", size, pg_num)
  \/ \E osd_id \in 0..NumOsds, s \in StateStrings : SetOsdState(osd_id, s)
  \/ ClusterStatus

SpecMonitor == Init /\ [][NextMonitor]_vars

(* Pool creation: any sequence of create_pool calls, with any names, while *)
(* the OSDs are added.                                                     *)
NextPools ==
  \/ NumAdded < NumOsds /\ AddOsd
  \/ \E name \in PoolNames, size \in PoolSizes, pg_num \in PgNums :
        CreatePool(name, size, pg_num)

SpecPools == Init /\ [][NextPools]_vars
(* Placement alone, on the Monitor: OSDs are added and marked down and up  *)
(* in any order, before and after the pool is created.                     *)
NextPlacement ==
  \/ AddOsd
  \/ /\ NumPools < MaxServedPools
     /\ \E size \in PoolSizes, pg_num \in PgNums : CreatePool("default", size, pg_num)
  \/ \E osd_id \in 0..(MaxOsds - 1), s \in {"up", "down"} : SetOsdState(osd_id, s)

SpecPlacement == Init /\ [][NextPlacement]_vars

\* record the OSD states and every PG's acting set and replica count, once
Snapshot ==
  /\ ~snap.taken
  /\ snap' = [taken |-> TRUE,
              states |-> [o \in DOMAIN osd_map |-> osd_map[o].state],
              acting |-> [g \in DOMAIN pg_map |-> GetActingSet(pg_map[g])],
              size |-> [g \in DOMAIN pg_map |-> pools[pg_map[g].pool_id].size]]
  /\ UNCHANGED <<osd_map, crush, pools, pg_map, epoch, disk, hash_of, ret, hist, thr, lock>>

(* The placement of two moments compared: the topology operations of       *)
(* NextMonitor on NumOsds OSDs, marked down and up, and one Snapshot.      *)
NextDeterminism ==
  \/ NumAdded < NumOsds /\ AddOsd
  \/ /\ NumPools < MaxServedPools
     /\ \E size \in PoolSizes, pg_num \in PgNums : CreatePool("default", size, pg_num)
  \/ \E osd_id \in 0..(NumOsds - 1), s \in {"up", "down"} : SetOsdState(osd_id, s)
  \/ Snapshot

SpecDeterminism == Init /\ [][NextDeterminism]_vars

(* Reads over damaged copies: the cluster of Spec with puts, reads and OSD *)
(* state changes, and an environment that corrupts stored bytes.           *)
NextRead ==
  \/ NumAdded < NumOsds /\ AddOsd
  \/ /\ Constructed
     /\ NumPools < MaxServedPools
     /\ \E size \in PoolSizes, pg_num \in PgNums : CreatePool("default", size, pg_num)
  \/ /\ Constructed
     /\ \E osd_id \in 0..(NumOsds - 1), s \in {"up", "down"} : SetOsdState(osd_id, s)
  \/ /\ Constructed
     /\ \E o \in Objects, d \in Bytes, iofail \in IoFailSets :
           PutObject("default", o, d, iofail)
  \/ /\ Constructed
     /\ \E o \in Objects : Get("default", o)
  \/ \E x \in 0..(NumOsds - 1), o \in Objects : Corrupt(x, ObjKey(0, o))

SpecRead == Init /\ [][NextRead]_vars

(* Two request threads, each calling create_pool once on the constructed  *)
(* cluster, their steps interleaved in any order.                          *)
NextConcurrentPools ==
  \/ NumAdded < NumOsds /\ AddOsd
  \/ /\ Constructed
     /\ \E t \in Threads, name \in PoolNames, size \in PoolSizes, pg_num \in PgNums :
          CpBegin(t, name, size, pg_num)
  \/ \E t \in Threads : CpInsertPool(t)
  \/ \E t \in Threads : CpCreatePg(t)
  \/ \E t \in Threads : CpUpdate(t)

SpecConcurrentPools == Init /\ [][NextConcurrentPools]_vars

(* Request threads, each calling set_osd_state once on the constructed     *)
(* cluster with its pool, their steps interleaved in any order.            *)
NextConcurrentState ==
  \/ NumAdded < NumOsds /\ AddOsd
  \/ /\ Constructed
     /\ NumPools < MaxServedPools
     /\ \E size \in PoolSizes, pg_num \in PgNums : CreatePool("default", size, pg_num)
  \/ /\ Constructed
     /\ NumPools = MaxServedPools
     /\ \E t \in Threads, osd_id \in 0..NumOsds, s \in {"up", "down"} :
          SsBegin(t, osd_id, s)
  \/ \E t \in Threads : SsSelect(t)
  \/ \E t \in Threads : SsPrimary(t)
  \/ \E t \in Threads : SsReplicas(t)
  \/ \E t \in Threads : SsState(t)
  \/ \E t \in Threads : SsReturn(t)

SpecConcurrentState == Init /\ [][NextConcurrentState]_vars

\* no request thread is inside a call or has made one
AllIdle == \A t \in Threads : thr[t].pc = "idle"

(* Object operations on request threads.  The cluster is constructed, its  *)
(* pool created, OSDs are marked down and objects put while no request     *)
(* runs; then each thread makes one call of put_object, get_object or      *)
(* delete_object, their steps interleaved in any order over a stable map.  *)
NextConcurrentObjects ==
  \/ NumAdded < NumOsds /\ AddOsd
  \/ /\ Constructed
     /\ NumPools < MaxServedPools
     /\ \E size \in PoolSizes, pg_num \in PgNums : CreatePool("default", size, pg_num)
  \/ /\ Constructed /\ AllIdle
     /\ \E osd_id \in 0..(NumOsds - 1) : SetOsdState(osd_id, "down")
  \/ /\ Constructed /\ AllIdle
     /\ \E o \in Objects, d \in Bytes : PutObject("default", o, d, {})
  \/ /\ Constructed
     /\ \E t \in Threads, o \in Objects, d \in Bytes : BeginWrite(t, "put", "default", o, d)
  \/ /\ Constructed
     /\ \E t \in Threads, o \in Objects : BeginWrite(t, "delete", "default", o, <<>>)
  \/ /\ Constructed
     /\ \E t \in Threads, o \in Objects : GoLookup(t, "default", o)
  \/ \E t \in Threads : Acquire(t)
  \/ \E t \in Threads : PoResolve(t)
  \/ \E t \in Threads : PoOpenData(t)
  \/ \E t \in Threads : PoWriteData(t)
  \/ \E t \in Threads : PoOpenMeta(t)
  \/ \E t \in Threads : PoWriteMeta(t)
  \/ \E t \in Threads : PoCommit(t)
  \/ \E t \in Threads : DoResolve(t)
  \/ \E t \in Threads : DoRemoveData(t)
  \/ \E t \in Threads : DoRemoveMeta(t)
  \/ \E t \in Threads : DoCommit(t)
  \/ \E t \in Threads : GoReadData(t)
  \/ \E t \in Threads : GoReadMeta(t)

SpecConcurrentObjects == Init /\ [][NextConcurrentObjects]_vars

\* a step of the put_object or delete_object call of thread t
WriteStep(t) ==
  \/ Acquire(t)
  \/ PoResolve(t)
  \/ PoOpenData(t)
  \/ PoWriteData(t)
  \/ PoOpenMeta(t)
  \/ PoWriteMeta(t)
  \/ PoCommit(t)
  \/ DoResolve(t)
  \/ DoRemoveData(t)
  \/ DoRemoveMeta(t)
  \/ DoCommit(t)

(* Writers on request threads: while no request runs the pool is created   *)
(* and OSDs are marked down; then each thread makes one put_object or      *)
(* delete_object call, on the pool or on a pool name that does not exist.  *)
NextWrites ==
  \/ NumAdded < NumOsds /\ AddOsd
  \/ /\ Constructed /\ AllIdle
     /\ NumPools < MaxServedPools
     /\ \E size \in PoolSizes : CreatePool("default", size, 1)
  \/ /\ Constructed /\ AllIdle
     /\ \E osd_id \in 0..(NumOsds - 1) : SetOsdState(osd_id, "down")
  \/ /\ Constructed
     /\ \E t \in Threads, name \in PoolNames, o \in Objects, d \in Bytes :
          BeginWrite(t, "put", name, o, d)
  \/ /\ Constructed
     /\ \E t \in Threads, name \in PoolNames, o \in Objects :
          BeginWrite(t, "delete", name, o, <<>>)
  \/ \E t \in Threads : WriteStep(t)

(* Every thread that can take a step of its call eventually takes one: the *)
(* interpreter switches between runnable threads, and a thread blocked on  *)
(* the lock becomes runnable when the lock is released.                    *)
SpecWritesFair ==
  Init /\ [][NextWrites]_vars /\ \A t \in Threads : WF_vars(WriteStep(t))

\* ------------------------------------------------------------- properties
\* what get_object returns for a (pool name, object) now
Read(k) == GetObject(k[1], k[2])

\* the PG of an object of a pool once hash() has been called on it
PgOf(pool, object_id, h) == pg_map[PgIdOf(pool, h[object_id])]

(* C1: round-trip.  If put_object(pool, o, b) returned success and no      *)
(* topology operation, delete or later put of o has happened since, then   *)
(* get_object(pool, o) returns the bytes b with metadata whose checksum is *)
(* the SHA-256 of b.                                                       *)
RoundTrip ==
  \A k \in DOMAIN hist :
    hist[k].kind = "put" =>
      /\ Read(k).found
      /\ Read(k).data = hist[k].data
      /\ Read(k).metadata.checksum = Sha256(hist[k].data)

(* C2: put-delete-get.  After an object was put successfully and           *)
(* delete_object on it returned true, get_object on it returns absent      *)
(* until a new put of it succeeds, whatever OSD state changes and failed   *)
(* puts happen in between.                                                 *)
PutDeleteGet ==
  \A k \in DOMAIN hist : hist[k].kind = "deleted" => ~Read(k).found

\* C2 witness: a get answered absent after the delete while an OSD of the
\* PG's current acting set still stores a copy of the deleted object
PutDeleteGetWitness ==
  /\ hist[<<"default", "a">>].kind = "deleted"
  /\ ret.op = "get" /\ ret.status = "none"
  /\ \E o \in Elems(GetActingSet(PgOf(pools[0], "a", hash_of))) :
        /\ IsUp(osd_map, o)
        /\ ObjKey(0, "a") \in DOMAIN disk[o].obj
        /\ ObjKey(0, "a") \in DOMAIN disk[o].meta

\* the number of OSDs of the acting set on which store_object succeeds
StoresOk(acting_set, iofail) ==
  Cardinality({o \in Elems(acting_set) :
                 o \in DOMAIN osd_map /\ osd_map[o].state = "up" /\ o \notin iofail})

(* C3: min-size enforcement.  A put_object on an active PG succeeds if and *)
(* only if store_object succeeded on at least pool.min_size OSDs of the    *)
(* acting set; when fewer succeed it fails with ReplicationBelowMin and    *)
(* pool.objects and pg.objects are as they were before the call.           *)
MinSizeStep(o, d, iofail) ==
  LET pool == pools[FindPool(pools, "default")]
      pg == PgOf(pool, o, hash_of')
      n == StoresOk(GetActingSet(pg), iofail)
  IN (/\ ret'.op = "put"
      /\ PutObject("default", o, d, iofail)
      /\ FindPool(pools, "default") # NoPool
      /\ PgIdOf(pool, hash_of'[o]) \in DOMAIN pg_map
      /\ pg.state # "inactive")
     => /\ (ret'.status = "ok") <=> (n >= pool.min_size)
        /\ (n < pool.min_size) =>
             /\ ret'.status = "ReplicationBelowMin"
             /\ pools' = pools
             /\ pg_map' = pg_map

MinSizeEnforcement ==
  [][\A o \in Objects, d \in Bytes, iofail \in IoFailSets : MinSizeStep(o, d, iofail)]_vars

\* C3 witness: a put on an active PG has failed with ReplicationBelowMin after
\* one store succeeded, and the OSD that stored keeps the copy
MinSizeEnforcementWitness ==
  /\ ret.op = "put" /\ ret.status = "ReplicationBelowMin"
  /\ "a" \notin DOMAIN pools[0].objects
  /\ \E o \in DOMAIN disk : ObjKey(0, "a") \in DOMAIN disk[o].obj

\* whether OSD x stores a copy of the object that passes the checksum comparison
ValidCopyOn(x, key) ==
  /\ key \in DOMAIN disk[x].obj
  /\ key \in DOMAIN disk[x].meta
  /\ Sha256(disk[x].obj[key]) = disk[x].meta[key].checksum

(* C4: invariant I6.  In every reachable state every object recorded in    *)
(* pool.objects is present and checksum-valid on at least one OSD of the   *)
(* current acting set of its PG.                                           *)
StoredObjectsOnActingSet ==
  \A p \in DOMAIN pools : \A o \in DOMAIN pools[p].objects :
    \E x \in Elems(GetActingSet(PgOf(pools[p], o, hash_of))) :
      ValidCopyOn(x, ObjKey(p, o))

\* the last operation was a topology operation that ran update_pg_mappings
AfterTopologyOp ==
  \/ ret.op \in {"add_osd", "create_pool"}
  \/ ret.op = "remove_osd" /\ ret.status = "ok"
  \/ ret.op = "set_osd_state" /\ ret.status = "true"

(* C5: when update_pg_mappings has returned, after any add_osd,            *)
(* remove_osd, set_osd_state or create_pool, every PG's acting set         *)
(* contains only OSDs whose state is up and has at most pool.size members, *)
(* also when every OSD is down or out.                                     *)
ActingSetOnlyUp ==
  AfterTopologyOp =>
    \A g \in DOMAIN pg_map :
      /\ \A x \in Elems(GetActingSet(pg_map[g])) : x \in DOMAIN osd_map /\ IsUp(osd_map, x)
      /\ Len(GetActingSet(pg_map[g])) <= pools[pg_map[g].pool_id].size

(* C6: invariant I4.  After every topology operation each PG is inactive   *)
(* iff its acting set is empty, active+clean iff its acting set has        *)
(* pool.size members that are all up, and active+degraded iff its acting   *)
(* set has between 1 and pool.size - 1 members.                            *)
PgStateFromActingSet ==
  AfterTopologyOp =>
    \A g \in DOMAIN pg_map :
      LET acting_set == GetActingSet(pg_map[g])
          size == pools[pg_map[g].pool_id].size
      IN /\ (pg_map[g].state = "inactive") <=> (acting_set = <<>>)
         /\ (pg_map[g].state = "active+clean") <=>
              /\ Len(acting_set) = size
              /\ \A x \in Elems(acting_set) : IsUp(osd_map, x)
         /\ (pg_map[g].state = "active+degraded") <=>
              (1 <= Len(acting_set) /\ Len(acting_set) <= size - 1)

(* C7: every successful add_osd, remove_osd, set_osd_state and create_pool *)
(* strictly increases the epoch, and the epoch never decreases.            *)
EpochBumpOnTopologyChange ==
  [][/\ AfterTopologyOp' => epoch' > epoch
     /\ epoch' >= epoch]_vars

\* pool ids are 0, 1, 2, ..., every PG references an existing pool, and a pool
\* with pg_num = N owns exactly the PGs "{pool_id}.0" ... "{pool_id}.N-1"
PoolIdsAndPgs ==
  /\ DOMAIN pools = 0..(NumPools - 1)
  /\ \A p \in DOMAIN pools : pools[p].pool_id = p
  /\ \A g \in DOMAIN pg_map :
       /\ pg_map[g].pool_id \in DOMAIN pools
       /\ pg_map[g].pgid = g
       /\ g[1] = pg_map[g].pool_id
  /\ \A p \in DOMAIN pools :
       {g \in DOMAIN pg_map : pg_map[g].pool_id = p} = {p} \X (0..(pools[p].pg_num - 1))

\* a create_pool call returns the next id and leaves the earlier pools in place
PoolCreatedInOrder ==
  NumPools' # NumPools =>
    /\ ret'.op = "create_pool"
    /\ ret'.result = NumPools
    /\ DOMAIN pools' = DOMAIN pools \cup {NumPools}
    /\ \A p \in DOMAIN pools : pools'[p] = pools[p]

(* C8: invariants I1/I2.  After any sequence of create_pool calls the pool *)
(* ids are 0, 1, 2, ... in creation order, every PG of pg_map references   *)
(* an existing pool, and a pool with pg_num = N has exactly the N PGs      *)
(* "{pool_id}.0" ... "{pool_id}.N-1".                                      *)
PoolsSequentialPgsExact == []PoolIdsAndPgs /\ [][PoolCreatedInOrder]_vars

\* C8 witness: two pools with different pg_num exist, the second created last
PoolsSequentialPgsExactWitness ==
  /\ NumPools = 2
  /\ pools[0].pg_num = 2
  /\ pools[1].pg_num = 1
  /\ ret.op = "create_pool" /\ ret.result = 1
  /\ NumAdded = NumOsds

(* C9: create_pool with the name of an existing pool fails and changes     *)
(* nothing, so that pool names are unique in every reachable state and a   *)
(* pool name resolves to exactly one pool.                                 *)
PoolNamesUnique ==
  \A p, q \in DOMAIN pools : pools[p].name = pools[q].name => p = q

(* C10: cluster_status reports HEALTH_OK if and only if every PG is        *)
(* active+clean and every OSD is up, and HEALTH_WARN in every other state. *)
HealthOkIffCleanAndUp ==
  ret.op = "cluster_status" =>
    /\ ret.status \in {"HEALTH_OK", "HEALTH_WARN"}
    /\ (ret.status = "HEALTH_OK") <=>
         /\ \A g \in DOMAIN pg_map : pg_map[g].state = "active+clean"
         /\ \A o \in DOMAIN osd_map : IsUp(osd_map, o)

(* C11: placement determinism.  The acting set of a PG depends only on the *)
(* pgid, the replica count and the current OSD states and racks: any two   *)
(* reachable states with the same OSD states give every PG the same        *)
(* ordered acting set (so marking an OSD down and up again restores every  *)
(* acting set).                                                            *)
PlacementDeterminism ==
  (/\ snap.taken
   /\ snap.states = [o \in DOMAIN osd_map |-> osd_map[o].state])
  => \A g \in (DOMAIN pg_map) \cap (DOMAIN snap.acting) :
       snap.size[g] = pools[pg_map[g].pool_id].size
         => GetActingSet(pg_map[g]) = snap.acting[g]

\* the racks that have at least one up OSD
RacksUp == {osd_map[o].rack : o \in {x \in DOMAIN osd_map : IsUp(osd_map, x)}}

(* C12: rack diversity.  In every reachable state, for any order of        *)
(* add_osd and OSD state changes, the first min(pool.size, number of racks *)
(* with an up OSD) members of every PG's acting set come from distinct     *)
(* racks.                                                                  *)
RackDiversity ==
  AfterTopologyOp =>
    \A g \in DOMAIN pg_map :
      LET acting_set == GetActingSet(pg_map[g])
          k == Min(pools[pg_map[g].pool_id].size, Cardinality(RacksUp))
      IN /\ Len(acting_set) >= k
         /\ \A i, j \in 1..k :
              i # j => osd_map[acting_set[i]].rack # osd_map[acting_set[j]].rack

(* C13: failover soundness.  When set_osd_state marks the primary of a PG  *)
(* down and at least one OSD of the PG's previous replica set is still up, *)
(* the PG's new primary is an OSD of its previous replica set.             *)
FailoverSoundness ==
  [][\A g \in DOMAIN pg_map : \A x \in DOMAIN osd_map :
       (/\ ret'.op = "set_osd_state" /\ ret'.status = "true"
        /\ IsUp(osd_map, x) /\ osd_map'[x].state = "down"
        /\ pg_map[g].primary_osd = x
        /\ \E r \in Elems(pg_map[g].replica_osds) : IsUp(osd_map', r))
       => pg_map'[g].primary_osd \in Elems(pg_map[g].replica_osds)]_vars

(* C14: delete_object on an unknown pool or on an object that is not in    *)
(* pool.objects (a second delete included) returns false and changes       *)
(* nothing: pool.objects, pg.objects, the OSDs' files and the cluster map  *)
(* stay as they are.                                                       *)
DeleteUnknownIsNoop ==
  [][\A o \in Objects :
       (/\ ret'.op = "delete"
        /\ DeleteObject("default", o)
        /\ \/ FindPool(pools, "default") = NoPool
           \/ o \notin DOMAIN pools[FindPool(pools, "default")].objects)
       => /\ ret'.status = "false"
          /\ UNCHANGED <<pools, pg_map, disk, osd_map, crush, epoch>>]_vars

\* C14 witness: a second delete of an object that was put and deleted returned
\* false while an OSD still stores a copy of it
DeleteUnknownIsNoopWitness ==
  /\ ret.op = "delete" /\ ret.status = "false"
  /\ hist[<<"default", "a">>].kind = "deleted"
  /\ \E o \in DOMAIN disk : ObjKey(0, "a") \in DOMAIN disk[o].obj

(* C15: object operations do not touch the topology.  put_object,          *)
(* get_object, delete_object and list_objects, succeeding or failing,      *)
(* leave the epoch, every OSD's state, the set of pools and every PG's     *)
(* acting set and state unchanged.                                         *)
ObjectOpsKeepTopology ==
  [][ret'.op \in {"put", "get", "delete", "list"} =>
       /\ epoch' = epoch
       /\ DOMAIN osd_map' = DOMAIN osd_map
       /\ \A o \in DOMAIN osd_map : osd_map'[o].state = osd_map[o].state
       /\ DOMAIN pools' = DOMAIN pools
       /\ DOMAIN pg_map' = DOMAIN pg_map
       /\ \A g \in DOMAIN pg_map :
            /\ GetActingSet(pg_map'[g]) = GetActingSet(pg_map[g])
            /\ pg_map'[g].state = pg_map[g].state]_vars

\* C15 witness: a delete has succeeded in a cluster with an OSD down and a
\* degraded PG
ObjectOpsKeepTopologyWitness ==
  /\ ret.op = "delete" /\ ret.status = "true"
  /\ \E o \in DOMAIN osd_map : ~IsUp(osd_map, o)
  /\ \E g \in DOMAIN pg_map : pg_map[g].state = "active+degraded"

(* C16: set_osd_state accepts only a known osd_id and a state in           *)
(* {up, down, out}.  An unknown osd_id yields the not-found result, a      *)
(* state string outside {up, down, out} yields the InvalidState error, and *)
(* in both cases no OSD state, PG mapping or epoch changes.                *)
SetOsdStateValidates ==
  [][\A osd_id \in 0..NumOsds : \A s \in StateStrings :
       (ret'.op = "set_osd_state" /\ SetOsdState(osd_id, s)) =>
         /\ osd_id \notin DOMAIN osd_map =>
              /\ ret'.status = "false"
              /\ UNCHANGED <<osd_map, pg_map, epoch>>
         /\ (osd_id \in DOMAIN osd_map /\ s \notin {"up", "down", "out"}) =>
              /\ ret'.status = "InvalidState"
              /\ UNCHANGED <<osd_map, pg_map, epoch>>]_vars

(* C17: put_object on an object whose PG is inactive fails with PgInactive *)
(* before any replica write: no OSD's stored data changes and pool.objects *)
(* and pg.objects are unchanged.                                           *)
InactivePutWritesNothing ==
  [][\A o \in Objects, d \in Bytes, iofail \in IoFailSets :
       (/\ ret'.op = "put"
        /\ PutObject("default", o, d, iofail)
        /\ FindPool(pools, "default") # NoPool
        /\ PgIdOf(pools[FindPool(pools, "default")], hash_of'[o]) \in DOMAIN pg_map
        /\ PgOf(pools[FindPool(pools, "default")], o, hash_of').state = "inactive")
       => /\ ret'.status = "PgInactive"
          /\ UNCHANGED <<disk, pools, pg_map>>]_vars

\* C17 witness: a put was refused with PgInactive on a PG that still names
\* its former, now down, acting set
InactivePutWritesNothingWitness ==
  /\ ret.op = "put" /\ ret.status = "PgInactive"
  /\ \A o \in DOMAIN osd_map : ~IsUp(osd_map, o)
  /\ \E g \in DOMAIN pg_map : GetActingSet(pg_map[g]) # <<>>

\* the positions of the acting set whose OSD is up and stores a copy of the
\* object that passes the checksum comparison
ValidPositions(acting_set, key) ==
  {i \in 1..Len(acting_set) :
     /\ acting_set[i] \in DOMAIN osd_map
     /\ IsUp(osd_map, acting_set[i])
     /\ ValidCopyOn(acting_set[i], key)}

\* what get_object is to return: the copy at the first valid position, or absent
FirstValidCopy(pool_name, object_id) ==
  IF \/ FindPool(pools, pool_name) = NoPool
     \/ object_id \notin DOMAIN pools[FindPool(pools, pool_name)].objects
  THEN [found |-> FALSE]
  ELSE LET pool == pools[FindPool(pools, pool_name)]
           acting_set == GetActingSet(PgOf(pool, object_id, hash_of))
           key == ObjKey(pool.pool_id, object_id)
           valid == ValidPositions(acting_set, key)
       IN IF valid = {} THEN [found |-> FALSE]
          ELSE LET first == CHOOSE i \in valid : \A j \in valid : i <= j
               IN [found |-> TRUE,
                   data |-> disk[acting_set[first]].obj[key],
                   metadata |-> disk[acting_set[first]].meta[key]]

\* a get_object answer is the first valid copy of the acting set, never
\* corrupted bytes
GetReturnsFirstValid ==
  \A o \in Objects :
    /\ Read(<<"default", o>>) = FirstValidCopy("default", o)
    /\ Read(<<"default", o>>).found => Read(<<"default", o>>).data # CorruptBytes

\* get_object changes nothing but its own result
GetKeepsState ==
  ret'.op = "get" =>
    /\ \E o \in Objects : ret'.result = Read(<<"default", o>>)
    /\ UNCHANGED <<osd_map, crush, pools, pg_map, epoch, disk, hash_of>>

(* C18: failover read.  get_object tries the acting set in order and       *)
(* returns the copy of the first OSD that is up, holds the object and      *)
(* passes the checksum comparison; with the primary's bytes corrupted and  *)
(* a valid copy on another acting-set OSD it returns that replica's bytes; *)
(* with no valid copy it returns absent; and it modifies no stored state.  *)
FailoverRead == []GetReturnsFirstValid /\ [][GetKeepsState]_vars

\* C18 witness: a get has returned a replica's bytes while the copy on the
\* PG's primary, which is up, is corrupted
FailoverReadWitness ==
  /\ ret.op = "get" /\ ret.status = "found"
  /\ \E g \in DOMAIN pg_map :
       /\ "a" \in pg_map[g].objects
       /\ IsUp(osd_map, pg_map[g].primary_osd)
       /\ <<pg_map[g].primary_osd, ObjKey(0, "a")>> \in Corrupted

(* C19: every pool in every reachable state satisfies                      *)
(* 1 <= min_size <= size, for every size create_pool accepts (size 1 and   *)
(* size 2 included), so that a pool whose PGs are active+clean can accept  *)
(* a put when no store fails.                                              *)
MinSizeWithinSize ==
  \A p \in DOMAIN pools : 1 <= pools[p].min_size /\ pools[p].min_size <= pools[p].size

(* C20: Monitor operations are serialized.  When two create_pool calls run *)
(* concurrently, in every interleaving they obtain distinct pool ids, both *)
(* pools exist in the map afterwards and each owns exactly its pg_num PGs. *)
ConcurrentCreatePool ==
  (\A t \in Threads : thr[t].pc = "done") =>
    /\ \A t, u \in Threads : t # u => thr[t].pool_id # thr[u].pool_id
    /\ \A t \in Threads :
         /\ thr[t].pool_id \in DOMAIN pools
         /\ pools[thr[t].pool_id].name = thr[t].name
         /\ pools[thr[t].pool_id].size = thr[t].size
         /\ pools[thr[t].pool_id].pg_num = thr[t].pg_num
         /\ {g \in DOMAIN pg_map : pg_map[g].pool_id = thr[t].pool_id}
              = {thr[t].pool_id} \X (0..(thr[t].pg_num - 1))

(* C21: topology changes are atomic for concurrent object operations.  In  *)
(* every state a put_object or get_object can observe while set_osd_state  *)
(* runs, every PG's acting set contains only up OSDs and a PG's primary is *)
(* not also one of its replicas.                                           *)
TopologyChangeAtomic ==
  \A g \in DOMAIN pg_map :
    /\ \A x \in Elems(GetActingSet(pg_map[g])) : IsUp(osd_map, x)
    /\ pg_map[g].primary_osd \notin Elems(pg_map[g].replica_osds)

(* C27: when two set_osd_state calls on different OSDs run concurrently,   *)
(* after both have completed every PG's acting set equals the placement    *)
(* computed serially from the final OSD states, and so contains no OSD     *)
(* that is down or out in the final state, in every interleaving.          *)
ConcurrentSetOsdState ==
  (/\ \A t \in Threads : thr[t].pc = "done" /\ thr[t].osd_id \in DOMAIN osd_map
   /\ \A t, u \in Threads : t # u => thr[t].osd_id # thr[u].osd_id)
  => \A g \in DOMAIN pg_map :
       /\ GetActingSet(pg_map[g]) =
            SelectOsds(osd_map, crush.failure_domains, g, pools[pg_map[g].pool_id].size)
       /\ \A x \in Elems(GetActingSet(pg_map[g])) : IsUp(osd_map, x)

\* a get_object answer that is one complete version: the bytes with the
\* metadata put_object wrote for them
CompleteVersion(r, metadata) ==
  /\ r.found
  /\ r.metadata = metadata
  /\ Sha256(r.data) = metadata.checksum
  /\ Len(r.data) = metadata.size_bytes

(* C22: a get_object that runs concurrently with an overwriting put_object *)
(* of the same object (existing object stored on every OSD of the acting   *)
(* set, which has min_size members; stable map, no I/O failure) returns,   *)
(* in every interleaving of the per-OSD writes and reads, the complete     *)
(* previous version or the complete new version with its metadata, never   *)
(* absent and never bytes with another version's metadata.                 *)
ReadDuringOverwrite ==
  \A r, w \in Threads :
    (/\ thr[r].pc = "done" /\ thr[r].op = "get"
     /\ thr[w].pc \notin {"idle", "acquire", "resolve"} /\ thr[w].op = "put"
     /\ thr[w].object_id = thr[r].object_id
     /\ thr[w].prev.found /\ thr[w].intact
     /\ ~BelowMin(thr[w].acting_set, pools[thr[w].pool_id]))
    => \/ CompleteVersion(thr[r].result, thr[w].prev.metadata)
       \/ CompleteVersion(thr[r].result,
                          Metadata(pools[thr[w].pool_id], thr[w].object_id,
                                   thr[w].data, thr[w].pgid))

(* C23: last-writer-wins under the RADOS lock.  After concurrent           *)
(* put_object and delete_object calls on the same object over a stable map *)
(* have completed, either the object is absent from pool.objects and from  *)
(* every OSD of the acting set, or every OSD of the acting set holds the   *)
(* same single version and pool.objects records that version's checksum    *)
(* (the first call to take the lock having found the object so).           *)
LastWriterWins ==
  \A o \in Objects :
    (/\ \A t \in Threads :
          /\ thr[t].pc = "done" /\ thr[t].op \in {"put", "delete"}
          /\ thr[t].object_id = o
     /\ \E t \in Threads : thr[t].consistent)
    => Consistent("default", o)

\* the pgids select_osds is called with: "{pool_id}.{index}" of the pools and
\* PG indexes of the bounds
SelectPgids == (0..(MaxPools - 1)) \X (0..1)

(* C24: select_osds(pgid, n) returns exactly min(n, number of OSDs         *)
(* currently up) OSD ids, all distinct and all currently up, never a down  *)
(* or out OSD; hence an OSD set from out back to up is selected again      *)
(* whenever n reaches the number of up OSDs.                               *)
SelectOsdsExact ==
  crush.present =>
    \A g \in SelectPgids, n \in PoolSizes :
      LET osds == SelectOsds(osd_map, crush.failure_domains, g, n)
          up == {o \in DOMAIN osd_map : osd_map[o].state = "up"}
      IN /\ Len(osds) = Min(n, Cardinality(up))
         /\ \A i, j \in 1..Len(osds) : i # j => osds[i] # osds[j]
         /\ \A i \in 1..Len(osds) : osds[i] \in up

\* C24 witness: an OSD was marked out by remove_osd, every OSD is up again
\* after set_osd_state, and a PG of three replicas has all three OSDs, the
\* one that was out among them, two of them from the padding
SelectOsdsExactWitness ==
  /\ NumRemoves = 1
  /\ NumAdded = NumOsds
  /\ ret.op = "set_osd_state" /\ ret.status = "true"
  /\ \A o \in DOMAIN osd_map : osd_map[o].state = "up"
  /\ \E g \in DOMAIN pg_map :
       /\ Len(GetActingSet(pg_map[g])) = NumOsds
       /\ GetActingSet(pg_map[g]) =
            SelectOsds(osd_map, crush.failure_domains, g, NumOsds)

\* the number of OSDs whose state is up
NumUp == Cardinality({o \in DOMAIN osd_map : osd_map[o].state = "up"})

(* C25: after set_osd_state has marked an OSD down or out (or up), a PG is *)
(* inactive only if no OSD at all is up: whenever at least one OSD is up,  *)
(* every PG is active+clean or active+degraded, and a PG is                *)
(* active+degraded exactly when fewer than pool.size OSDs are up.          *)
DegradedNotInactive ==
  (ret.op = "set_osd_state" /\ ret.status = "true" /\ NumUp >= 1) =>
    \A g \in DOMAIN pg_map :
      /\ pg_map[g].state \in {"active+clean", "active+degraded"}
      /\ (pg_map[g].state = "active+degraded") <=> (NumUp < pools[pg_map[g].pool_id].size)

\* C25 witness: set_osd_state has left one OSD up, another out and another
\* down, and the PG of a pool of three replicas is active+degraded on the
\* one OSD that is up
DegradedNotInactiveWitness ==
  /\ ret.op = "set_osd_state" /\ ret.status = "true"
  /\ NumUp = 1
  /\ \E o \in DOMAIN osd_map : osd_map[o].state = "out"
  /\ \E o \in DOMAIN osd_map : osd_map[o].state = "down"
  /\ \E g \in DOMAIN pg_map :
       /\ pools[pg_map[g].pool_id].size = 3
       /\ pg_map[g].state = "active+degraded"
       /\ Len(GetActingSet(pg_map[g])) = 1
       /\ osd_map[pg_map[g].primary_osd].state = "up"

(* C26: after every update_pg_mappings each OSD's pg_assignments equals    *)
(* exactly the set of PG ids whose acting set contains that OSD; an OSD    *)
(* that is down or out, or that dropped out of a PG's acting set, no       *)
(* longer lists that PG.                                                   *)
PgAssignmentsExact ==
  AfterTopologyOp =>
    \A o \in DOMAIN osd_map :
      osd_map[o].pg_assignments =
        {g \in DOMAIN pg_map : o \in Elems(GetActingSet(pg_map[g]))}

\* the lock is held only by a thread inside its with block
LockHeldInside ==
  /\ lock # NoThread => thr[lock].pc \notin {"idle", "acquire", "done"}
  /\ \A t \in Threads : thr[t].pc = "done" => lock # t

(* C28: operations run to completion and never block each other forever.   *)
(* Under fair scheduling every put_object and delete_object call           *)
(* eventually returns or raises, and the RADOS lock is free after it does  *)
(* on every path (PoolNotFound, PgMissing, PgInactive and                  *)
(* ReplicationBelowMin included), so a failed write never keeps a later    *)
(* write from proceeding.                                                  *)
WritesTerminate ==
  /\ []LockHeldInside
  /\ \A t \in Threads : (thr[t].pc = "acquire") ~> (thr[t].pc = "done")

\* C28 witness: two puts have failed with ReplicationBelowMin, the second
\* one having taken the lock after the first had raised, and the lock is free
WritesTerminateWitness ==
  /\ \A t \in Threads : thr[t].pc = "done" /\ thr[t].status = "ReplicationBelowMin"
  /\ lock = NoThread

(* C29: invariant I5 and index consistency.  In every reachable state an   *)
(* object id is in pool.objects if and only if it is in the objects set of *)
(* the PG "{pool_id}.{hash(object_id) mod pg_num}", it is in the objects   *)
(* set of no other PG of the pool, and the pg_id recorded in its metadata  *)
(* is that PG's id.                                                        *)
ObjectIndexConsistent ==
  \A p \in DOMAIN pools : \A o \in Objects :
    IF o \notin DOMAIN hash_of
    THEN /\ o \notin DOMAIN pools[p].objects
         /\ \A g \in DOMAIN pg_map : pg_map[g].pool_id = p => o \notin pg_map[g].objects
    ELSE LET pgid == <<p, hash_of[o] % pools[p].pg_num>>
         IN /\ pgid \in DOMAIN pg_map
            /\ (o \in DOMAIN pools[p].objects) <=> (o \in pg_map[pgid].objects)
            /\ \A g \in DOMAIN pg_map :
                 (pg_map[g].pool_id = p /\ g # pgid) => o \notin pg_map[g].objects
            /\ o \in DOMAIN pools[p].objects =>
                 /\ pools[p].objects[o].pg_id = pgid
                 /\ pg_map[pgid].pgid = pgid

\* C29 witness: an object whose hash is odd was put, deleted and put again
\* into the second PG of a pool of two PGs, the first PG staying empty
ObjectIndexConsistentWitness ==
  /\ ret.op = "put" /\ ret.status = "ok"
  /\ pools[0].pg_num = 2
  /\ hash_of["a"] = 1
  /\ "a" \in pg_map[<<0, 1>>].objects
  /\ pg_map[<<0, 0>>].objects = {}
  /\ pools[0].objects["a"].pg_id = <<0, 1>>
  /\ \E o \in DOMAIN osd_map : ~IsUp(osd_map, o)

(* C30: no stale read.  Whenever get_object returns bytes for an object,   *)
(* they are the bytes of the most recent successful put: their SHA-256     *)
(* equals the checksum recorded in pool.objects.  This is to hold in every *)
(* reachable state, also after an overwrite made while an OSD was down and *)
(* that OSD set up again, and after a put that failed below min_size.      *)
NoStaleRead ==
  \A pool_name \in PoolNames : \A o \in Objects :
    GetObject(pool_name, o).found =>
      Sha256(GetObject(pool_name, o).data) =
        pools[FindPool(pools, pool_name)].objects[o].checksum

\* some OSD of the cluster stores a data or metadata blob for the object
StoredSomewhere(pool_id, object_id) ==
  \E o \in DOMAIN disk :
    \/ ObjKey(pool_id, object_id) \in DOMAIN disk[o].obj
    \/ ObjKey(pool_id, object_id) \in DOMAIN disk[o].meta

\* right after delete_object returned true for the object
JustDeleted(pool_name, object_id) ==
  /\ ret.op = "delete" /\ ret.status = "true"
  /\ hist[<<pool_name, object_id>>].kind = "deleted"

\* right after a put of an object that was never put successfully nor
\* deleted raised ReplicationBelowMin
JustFailedFirstPut(pool_name, object_id) ==
  /\ ret.op = "put" /\ ret.status = "ReplicationBelowMin"
  /\ hist[<<pool_name, object_id>>].kind = "none"
  /\ FindPool(pools, pool_name) # NoPool
  /\ object_id \notin DOMAIN pools[FindPool(pools, pool_name)].objects

(* C31: no orphaned replicas.  After delete_object returns true, no OSD in *)
(* the cluster still stores a data or metadata blob for that (pool,        *)
(* object), whatever OSD state changes happened between the put and the    *)
(* delete; likewise after a put that failed with ReplicationBelowMin on a  *)
(* previously absent object, no OSD stores a blob for it.                  *)
NoOrphanedReplicas ==
  \A pool_name \in PoolNames : \A o \in Objects :
    (JustDeleted(pool_name, o) \/ JustFailedFirstPut(pool_name, o)) =>
      ~StoredSomewhere(FindPool(pools, pool_name), o)
====
